---- MODULE Spec2Model ----
(***************************************************************************)
(* Alert Dashboard V2: the alert manager (active set, merge, cancel,       *)
(* expiration sweep), the WebSocket message broker (sessions, broadcast    *)
(* tasks), the zone geometry service (cache, coalesced fetches) and the    *)
(* NWWS push pipeline that feeds parsed alerts through the geometry        *)
(* service into the manager.                                               *)
(*                                                                         *)
(* The program runs on one asyncio event loop.  A step of the model is the *)
(* code a coroutine runs between two awaits; every await of network I/O    *)
(* (REST request, WebSocket accept/send/close) is a point where other      *)
(* coroutines may run.  asyncio.create_task() only queues a coroutine: it  *)
(* starts at a later step, in creation order.                              *)
(***************************************************************************)
EXTENDS Integers, Sequences, FiniteSets, TLC

VARIABLES
    \* ---- AlertManager (services/alert_manager.py)
    alerts,        \* _alerts: the active set, a dict kept in insertion order
    recent,        \* _recent_products: deque(maxlen), newest first
    running,       \* _running: the cleanup loop is scheduled
    \* ---- clock
    now,           \* datetime.now(timezone.utc), in whole ticks
    sinceSweep,    \* ticks slept by _cleanup_loop since it last woke
    \* ---- event loop
    pending,       \* broadcast tasks created by the manager callbacks, not yet started
    \* ---- MessageBroker (services/message_broker.py)
    entries,       \* _connections: dict entries in insertion order, 0 = deleted slot
    counter,       \* _connection_counter
    bcasts,        \* started _broadcast coroutines, in start order
    pc,            \* websocket_endpoint coroutine of each client
    alive,         \* whether the client's transport still accepts writes
    received,      \* what each client has been sent, in order
    subscriptions, \* ClientConnection.subscriptions of each client
    \* ---- ZoneGeometryService (services/zone_geometry_service.py)
    cache,         \* _cache: zone_id -> entry
    pendingFetches,\* _pending_fetches: zone_id -> fetch task
    fetches,       \* the _do_fetch tasks created so far
    ready,         \* the event loop's queue of callbacks ready to run, oldest first
    \* ---- NWWS push pipeline (main.py on_nwws_alert)
    procs,         \* process_alert tasks, in creation order
    \* ---- inputs and history
    inbox,         \* products still to be received, and those received
    fed,           \* number of add_alert calls made so far
    lastOp,        \* the last manager operation and what it worked on
    overdue,       \* per expired alert of the active set: ticks it has been there expired
    \* ---- persistence (services/alert_manager.py save_to_file, load_from_file)
    disk,          \* the alerts file at _persistence_path: absent, or its content
    \* ---- NWWSClient (services/nwws_client.py)
    nwws,          \* _connected, _should_reconnect, _reconnect_task, the tasks created, the stream
    \* ---- NWSAPIClient (services/nws_api_client.py)
    api,           \* _last_request_time, the callers inside _request and the GETs sent
    \* ---- calls into the AlertManager and the callbacks it has invoked
    calls,         \* manager calls not yet returned, and the log of callback invocations
    \* ---- service lifecycle (main.py startup_services, shutdown_services)
    svc            \* which core components are stopped, and what shutdown has done so far

mgrVars    == <<alerts, recent, running>>
clockVars  == <<now, sinceSweep>>
brokerVars == <<entries, counter, bcasts, pc, alive, received, subscriptions>>
geomVars   == <<cache, pendingFetches, fetches, ready>>
histVars   == <<fed, lastOp, overdue>>
ioVars     == <<disk, nwws, api, calls, svc>>
vars == <<alerts, recent, running, now, sinceSweep, pending, entries, counter,
          bcasts, pc, alive, received, subscriptions, cache, pendingFetches, fetches, ready,
          procs, inbox, fed, lastOp, overdue, disk, nwws, api, calls, svc>>

(***************************************************************************)
(* Helpers                                                                 *)
(***************************************************************************)
Range(s) == {s[i] : i \in 1..Len(s)}

Min(a, b) == IF a <= b THEN a ELSE b

\* Python's None for an optional value is the empty tuple, a value v is <<v>>.
None == <<>>
Some(v) == <<v>>

RemoveAt(s, i) == SubSeq(s, 1, i - 1) \o SubSeq(s, i + 1, Len(s))

(***************************************************************************)
(* VTEC product ids (parsers/vtec_parser.py)                               *)
(***************************************************************************)
\* An office is a tuple of characters; an id is the tuple of its dot-separated fields.
KCLE == <<"K", "C", "L", "E">>
KPBZ == <<"K", "P", "B", "Z">>

RECURSIVE Digits(_)
Digits(n) == IF n < 10 THEN <<n>> ELSE Append(Digits(n \div 10), n % 10)

RECURSIVE ZeroPad(_, _)
ZeroPad(ds, width) == IF Len(ds) >= width THEN ds ELSE ZeroPad(<<0>> \o ds, width)

\* f"{n:04d}"
Format04d(n) == ZeroPad(Digits(n), 4)

\* build_product_id that keeps the office in the id of a watch
build_product_id_with_office_for_watch(vtec_info) ==
    LET office == IF vtec_info.office # <<>> /\ Head(vtec_info.office) = "K"
                     /\ Len(vtec_info.office) = 4
                  THEN Tail(vtec_info.office)
                  ELSE vtec_info.office
        phenomenon == IF vtec_info.significance = "A"
                      THEN <<vtec_info.phenomenon, "A">> ELSE vtec_info.phenomenon
    IN << phenomenon, office, Format04d(vtec_info.event_tracking_number) >>

\* VTECParser.build_product_id
build_product_id(vtec_info) ==
    IF vtec_info.significance = "A"
    THEN << <<vtec_info.phenomenon, "A">>, Format04d(vtec_info.event_tracking_number) >>
    ELSE LET office == IF vtec_info.office # <<>> /\ Head(vtec_info.office) = "K"
                          /\ Len(vtec_info.office) = 4
                       THEN Tail(vtec_info.office)
                       ELSE vtec_info.office
         IN << vtec_info.phenomenon, office, Format04d(vtec_info.event_tracking_number) >>

\* VTECParser.is_cancellation
is_cancellation(vtec_info) == vtec_info.action \in {"CAN", "EXP"}

(***************************************************************************)
(* Alert (models/alert.py)                                                 *)
(***************************************************************************)
\* ThreatData: the fields AlertManager.add_alert looks at, and one it does not.
EmptyThreat == [tornado_detection |-> None, max_wind_gust_mph |-> None,
                max_hail_size_inches |-> None]

\* ThreatData.has_tornado
has_tornado(threat) == threat.tornado_detection # None

\* Python truthiness of an Optional[int]: None and 0 are false
Truthy(opt) == opt # None /\ opt[1] # 0

\* AlertPriority.OTHER, the default of Alert.priority
AlertPriority_OTHER == 99

\* PHENOMENON_PRIORITIES.get(phenomenon, AlertPriority.OTHER)
PHENOMENON_PRIORITIES(phenomenon) ==
    CASE phenomenon = "TO"  -> 1
      [] phenomenon = "SV"  -> 2
      [] phenomenon = "FF"  -> 4
      [] phenomenon = "WS"  -> 6
      [] phenomenon = "BZ"  -> 7
      [] phenomenon = "IS"  -> 8
      [] phenomenon = "WC"  -> 11
      [] phenomenon = "SPS" -> 12
      [] phenomenon = "WW"  -> 13
      [] OTHER              -> AlertPriority_OTHER

\* Alert.__post_init__, the priority it leaves in an Alert constructed with these
\* fields: derived only when the priority passed in is OTHER and the phenomenon is set
post_init_priority(priority, phenomenon, significance) ==
    IF priority = AlertPriority_OTHER /\ phenomenon # ""
    THEN IF significance = "A" /\ phenomenon = "TO" THEN 3
         ELSE IF significance = "A" /\ phenomenon = "SV" THEN 5
         ELSE IF significance = "A" /\ phenomenon = "FF" THEN 9
         ELSE IF significance = "A" /\ phenomenon = "WS" THEN 10
         ELSE PHENOMENON_PRIORITIES(phenomenon)
    ELSE priority

\* Alert(source=source), as both parsers construct it: no phenomenon yet, the default
\* significance, and the priority __post_init__ leaves; the parsers assign phenomenon
\* and significance afterwards and __post_init__ does not run again
NewAlertPriority == post_init_priority(AlertPriority_OTHER, "", "W")

\* AlertParser.parse_text_alert, the part that fixes identity, status and expiration
\* of a VTEC product; `body` carries the fields parsed from the rest of the text.
parse_text_alert(vtec_info, body) ==
    [product_id      |-> build_product_id(vtec_info),
     status          |-> IF is_cancellation(vtec_info) THEN "cancelled" ELSE "active",
     phenomenon      |-> vtec_info.phenomenon,
     significance    |-> vtec_info.significance,
     priority        |-> NewAlertPriority,
     expiration_time |-> vtec_info.end_time,
     headline        |-> body.headline,
     description     |-> body.description,
     instruction     |-> body.instruction,
     polygon         |-> body.polygon,
     threat          |-> body.threat,
     affected_areas  |-> body.affected_areas,
     last_updated    |-> 0,
     update_count    |-> 0]

\* Alert.mark_updated
mark_updated(alert, t) ==
    [alert EXCEPT !.last_updated = t, !.update_count = @ + 1]

\* Alert.mark_expired
mark_expired(alert, t) == mark_updated([alert EXCEPT !.status = "expired"], t)

\* Alert.is_expired, read at time t
is_expired(alert, t) ==
    IF alert.expiration_time = None THEN FALSE ELSE t >= alert.expiration_time[1]

(***************************************************************************)
(* AlertManager (services/alert_manager.py)                                *)
(***************************************************************************)
\* AlertManager.__init__: max_recent_products
max_recent_products == 50

\* AlertManager.__init__: cleanup_interval, in ticks of the model's clock
cleanup_interval == 2

\* self._alerts.get(product_id): the position of the entry, 0 when absent
IndexOf(al, pid) ==
    IF \E i \in 1..Len(al) : al[i].product_id = pid
    THEN CHOOSE i \in 1..Len(al) : al[i].product_id = pid
    ELSE 0

\* a callback invocation: _notify_added / _notify_updated / _notify_removed
Event(kind, alert) == [kind |-> kind, alert |-> alert]

NoChange(al, rc) == [alerts |-> al, recent |-> rc, events |-> <<>>, result |-> FALSE]

\* AlertManager._add_to_recent: appendleft on a deque(maxlen=max_recent_products)
add_to_recent(rc, alert) ==
    SubSeq(<<alert.product_id>> \o rc, 1, Min(Len(rc) + 1, max_recent_products))

\* AlertManager.remove_alert
remove_alert(al, rc, product_id) ==
    LET i == IndexOf(al, product_id) IN
    IF i # 0
    THEN [alerts |-> RemoveAt(al, i), recent |-> rc,
          events |-> <<Event("removed", al[i])>>, result |-> TRUE]
    ELSE NoChange(al, rc)

\* AlertManager.add_alert, the update of an existing alert (lines 146-152)
merge_alert(existing, alert, t) ==
    mark_updated(
        [existing EXCEPT
            !.headline = IF alert.headline # "" THEN alert.headline ELSE @,
            !.description = IF alert.description # "" THEN alert.description ELSE @,
            !.instruction = IF alert.instruction # "" THEN alert.instruction ELSE @,
            !.expiration_time = IF alert.expiration_time # None
                                THEN alert.expiration_time ELSE @,
            !.threat = IF has_tornado(alert.threat) \/ Truthy(alert.threat.max_wind_gust_mph)
                       THEN alert.threat ELSE @,
            !.polygon = IF alert.polygon # <<>> THEN alert.polygon ELSE @],
        t)

\* add_alert without lines 156-159: a cancelled alert of an unknown id is added
add_alert_adding_unknown_cancelled(al, rc, alert, t) ==
    LET i == IndexOf(al, alert.product_id) IN
    IF alert.product_id = <<>> THEN NoChange(al, rc)
    ELSE IF i # 0
    THEN IF alert.status = "cancelled"
         THEN [remove_alert(al, rc, alert.product_id) EXCEPT !.result = TRUE]
         ELSE LET merged == merge_alert(al[i], alert, t) IN
              [alerts |-> [al EXCEPT ![i] = merged], recent |-> rc,
               events |-> <<Event("updated", merged)>>, result |-> TRUE]
    ELSE [alerts |-> Append(al, alert), recent |-> add_to_recent(rc, alert),
          events |-> <<Event("added", alert)>>, result |-> TRUE]

\* AlertManager.add_alert
add_alert(al, rc, alert, t) ==
    LET i == IndexOf(al, alert.product_id) IN
    IF alert.product_id = <<>> THEN NoChange(al, rc)
    ELSE IF i # 0
    THEN IF alert.status = "cancelled"
         THEN [remove_alert(al, rc, alert.product_id) EXCEPT !.result = TRUE]
         ELSE LET merged == merge_alert(al[i], alert, t) IN
              [alerts |-> [al EXCEPT ![i] = merged], recent |-> rc,
               events |-> <<Event("updated", merged)>>, result |-> TRUE]
    ELSE IF alert.status = "cancelled" THEN NoChange(al, rc)
    ELSE [alerts |-> Append(al, alert), recent |-> add_to_recent(rc, alert),
          events |-> <<Event("added", alert)>>, result |-> TRUE]

\* the alerts cleanup_expired collects in expired_ids, in dict order
ExpiredAt(al, t) ==
    SelectSeq(al, LAMBDA a : a.expiration_time # None /\ a.expiration_time[1] <= t)

\* mutant of cleanup_expired: the removal loop stops after the first expired alert
cleanup_expired_first_only(al, rc, t) ==
    LET expired == SubSeq(ExpiredAt(al, t), 1, Min(1, Len(ExpiredAt(al, t))))
        gone    == {a.product_id : a \in Range(expired)} IN
    [alerts |-> SelectSeq(al, LAMBDA a : a.product_id \notin gone),
     recent |-> rc,
     events |-> [k \in 1..Len(expired) |-> Event("removed", mark_expired(expired[k], t))],
     result |-> Len(expired)]

\* AlertManager.cleanup_expired
cleanup_expired(al, rc, t) ==
    LET expired == ExpiredAt(al, t)
        gone    == {a.product_id : a \in Range(expired)} IN
    [alerts |-> SelectSeq(al, LAMBDA a : a.product_id \notin gone),
     recent |-> rc,
     events |-> [k \in 1..Len(expired) |-> Event("removed", mark_expired(expired[k], t))],
     result |-> Len(expired)]

(***************************************************************************)
(* wire_alert_callbacks (main.py): each callback only creates a task       *)
(***************************************************************************)
MsgType(kind) ==
    CASE kind = "added"   -> "alert_new"
      [] kind = "updated" -> "alert_update"
      [] kind = "removed" -> "alert_remove"

\* sync_added / sync_updated / sync_removed: asyncio.create_task(on_alert_*(alert)).
\* `cause` is history: the manager operation that emitted the event.
CreateTasks(events, cause) ==
    [k \in 1..Len(events) |->
        [type |-> MsgType(events[k].kind), alert |-> events[k].alert, cause |-> cause]]

(***************************************************************************)
(* MessageBroker (services/message_broker.py)                              *)
(***************************************************************************)
\* websocket connections the model opens
MaxClients == 2

Clients == 1..MaxClients

\* the keys of _connections
Live(ents) == Range(ents) \ {0}

\* self._connections.pop(client_id, None): the entry becomes a deleted slot
PopEntry(ents, c) == [i \in 1..Len(ents) |-> IF ents[i] = c THEN 0 ELSE ents[i]]

\* the first used slot after position i of the dict's entry table, 0 when none is left
NextSlot(ents, i) ==
    IF \E j \in (i + 1)..Len(ents) : ents[j] # 0
    THEN CHOOSE j \in (i + 1)..Len(ents) :
            ents[j] # 0 /\ \A k \in (i + 1)..(j - 1) : ents[k] = 0
    ELSE 0

\* MessageBroker.broadcast_alert_remove: the reason is read off the clock when the
\* broadcast task runs
RemoveReason(alert, t) == IF is_expired(alert, t) THEN "expired" ELSE "cancelled"

\* broadcast_alert_new / broadcast_alert_update / broadcast_alert_remove: the envelope
\* handed to _broadcast by a task that starts at time t
Envelope(task, t) ==
    [type       |-> task.type,
     product_id |-> task.alert.product_id,
     reason     |-> IF task.type = "alert_remove" THEN RemoveReason(task.alert, t) ELSE ""]

\* One turn of the loop of _broadcast: next() on the dict iterator, then send_text.
\* The iterator raises RuntimeError when the dict's size differs from the size it had
\* when the iteration began; the exception leaves _broadcast.  A failed send is
\* caught and remembered.  After the last entry the failed clients are disconnected,
\* one await each.
IterNext(b, ents, alv) ==
    IF Cardinality(Live(ents)) # b.di_used
    THEN [b EXCEPT !.at = "crashed"]
    ELSE LET j == NextSlot(ents, b.idx) IN
         IF j # 0
         THEN IF alv[ents[j]]
              THEN [b EXCEPT !.idx = j, !.wrote = @ \cup {ents[j]}]
              ELSE [b EXCEPT !.idx = j, !.disconnected = Append(@, ents[j]),
                             !.failedWhen = IF @ = None THEN Some(Live(ents)) ELSE @]
         ELSE IF b.disconnected = <<>>
              THEN [b EXCEPT !.at = "done"]
              ELSE [b EXCEPT !.at = "close"]

\* the client IterNext has just written to, 0 when it wrote to none
WrittenBy(before, after) ==
    IF after.wrote # before.wrote THEN CHOOSE c \in after.wrote \ before.wrote : TRUE ELSE 0

Deliver(rcv, c, msg) == IF c = 0 THEN rcv ELSE [rcv EXCEPT ![c] = Append(@, msg)]

\* the first of the pending `await self.disconnect(client_id)` of _broadcast
CloseNext(b, ents) ==
    IF b.at = "close" /\ b.disconnected # <<>> THEN PopEntry(ents, Head(b.disconnected)) ELSE ents

\* the broadcast tasks that have not ended; a task that has ended is kept, as history,
\* until the next one starts
Unfinished(bs) == SelectSeq(bs, LAMBDA b : b.at \in {"iter", "close"})

\* A broadcast task starts: the envelope is built, and _broadcast returns at once when
\* nobody is connected; otherwise it runs up to its first await.  `audience` is
\* history: the clients registered when the loop began.
StartBroadcast ==
    /\ pending # <<>>
    /\ pending' = Tail(pending)
    /\ IF Live(entries) = {}
       THEN UNCHANGED <<entries, bcasts, received>>
       ELSE LET b0 == [msg |-> Envelope(Head(pending), now), cause |-> Head(pending).cause,
                       di_used |-> Cardinality(Live(entries)), idx |-> 0,
                       disconnected |-> <<>>, at |-> "iter", wrote |-> {},
                       failedWhen |-> None, audience |-> Live(entries)]
                b1 == IterNext(b0, entries, alive) IN
            /\ bcasts' = Append(Unfinished(bcasts), b1)
            /\ received' = Deliver(received, WrittenBy(b0, b1), b0.msg)
            /\ entries' = CloseNext(b1, entries)
    /\ UNCHANGED <<counter, pc, alive, subscriptions>>

\* Writes to one socket leave in the order they were issued: a broadcast resumes only
\* when every broadcast started before it has moved past the entry it waits on.
MayResume(k) ==
    \A h \in 1..(k - 1) : bcasts[h].at = "iter" => bcasts[h].idx > bcasts[k].idx

\* A broadcast resumes from `await connection.websocket.send_text(message)`.
BroadcastStep(k) ==
    /\ bcasts[k].at = "iter"
    /\ MayResume(k)
    /\ LET b1 == IterNext(bcasts[k], entries, alive) IN
        /\ bcasts' = [bcasts EXCEPT ![k] = b1]
        /\ received' = Deliver(received, WrittenBy(bcasts[k], b1), b1.msg)
        /\ entries' = CloseNext(b1, entries)
    /\ UNCHANGED <<pending, counter, pc, alive, subscriptions>>

\* A broadcast resumes from `await self.disconnect(client_id)` (websocket.close()).
BroadcastClose(k) ==
    /\ bcasts[k].at = "close"
    /\ LET rest == Tail(bcasts[k].disconnected)
           b1   == [bcasts[k] EXCEPT !.disconnected = rest,
                                     !.at = IF rest = <<>> THEN "done" ELSE "close"] IN
        /\ bcasts' = [bcasts EXCEPT ![k] = b1]
        /\ entries' = CloseNext(b1, entries)
    /\ UNCHANGED <<pending, counter, pc, alive, received, subscriptions>>

(***************************************************************************)
(* Initial values                                                          *)
(***************************************************************************)
InitManager == alerts = <<>> /\ recent = <<>> /\ running = TRUE

InitClock == now = 0 /\ sinceSweep = 0

InitBroker ==
    /\ entries = <<>> /\ counter = 0 /\ bcasts = <<>> /\ pending = <<>>
    /\ pc = [c \in Clients |-> "idle"]
    /\ alive = [c \in Clients |-> TRUE]
    /\ received = [c \in Clients |-> <<>>]
    /\ subscriptions = [c \in Clients |-> {}]

InitGeometry ==
    /\ cache = <<>> /\ pendingFetches = <<>> /\ fetches = <<>>
    /\ ready = <<>> /\ procs = <<>>

NoOp == [op |-> "none"]

InitHistory == fed = 0 /\ lastOp = NoOp /\ overdue = <<>>

\* no alerts file has been written yet
InitDisk == disk = [state |-> "absent", alerts |-> <<>>]

\* NWWSClient.__init__: not connected, reconnection wanted, no reconnect task (0 is
\* None, otherwise the number of the task in `tasks`); the stream is idle and no
\* session_start handler is running.  History: the requests the last session_start
\* handler has sent, whether stop() has been called, whether a "disconnected" event
\* and a reconnect attempt have come after it
InitNwws ==
    nwws = [connected |-> FALSE, should_reconnect |-> TRUE, reconnect_task |-> 0,
            tasks |-> <<>>, link |-> "idle", session |-> "none", stanzas |-> <<>>,
            stopped |-> FALSE, dropped_after_stop |-> FALSE, late_attempt |-> FALSE]

\* how many coroutines call NWSAPIClient._request
MaxCallers == 3

Callers == 1..MaxCallers

\* a caller of _request: where it stands ("idle" before the call, "rate_sleep" in the
\* sleep of _rate_limit, "get" awaiting the response, "retry_wait" in the wait of the
\* retry decorator, "done"), the attempt it is in, the response that caused this
\* attempt, and when its sleep ends
IdleCaller == [pc |-> "idle", attempt |-> 0, after |-> "first", wake_at |-> 0]

\* NWSAPIClient.__init__: no request made yet, nobody inside _request, no GET sent
InitRest ==
    api = [last_request_time |-> None, sent |-> <<>>,
           callers |-> [c \in Callers |-> IdleCaller]]

\* AlertManager.__init__ and wire_alert_callbacks: no call is running, no callback has
\* been invoked
InitCalls == calls = [running |-> <<>>, log |-> <<>>]

\* after startup_services: every core component runs and shutdown_services has not
\* begun.  `next` and `phase` are the position of shutdown_services among its stop
\* calls; `stopped` lists the components whose stop has returned; `saved` is the
\* active set handed to save_to_file, `cache_file` the zone cache written on stop,
\* `pool` the connection pool of the REST client
InitServices ==
    svc = [at |-> "up", next |-> 1, phase |-> "call", stopped |-> <<>>,
           saved |-> None, cache_file |-> None, pool |-> "open"]

InitIO == InitDisk /\ InitNwws /\ InitRest /\ InitCalls /\ InitServices

\* the ids of the active alerts whose expiration_time is at or before t
ExpiredIds(al, t) == {a.product_id : a \in Range(ExpiredAt(al, t))}

\* history: how long each expired alert of the active set has been there expired
Overdue(al, t) ==
    [id \in ExpiredIds(al, t) |->
        IF id \in DOMAIN overdue THEN overdue[id] + (t - now) ELSE 0]

(***************************************************************************)
(* Feeding parsed products straight into the manager                       *)
(***************************************************************************)
\* UGC codes are tuples <<state, type, number>>
OHC049 == <<"OH", "C", 49>>
PAC003 == <<"PA", "C", 3>>

\* the counties a product of the office names
AreasOf(office) == IF office = KCLE THEN <<OHC049>> ELSE <<PAC003>>

RingA == << <<41, -83>>, <<42, -83>>, <<41, -82>>, <<41, -83>> >>
RingB == << <<40, -80>>, <<41, -80>>, <<40, -79>>, <<40, -80>> >>

Threats(tor, wind, hail) ==
    { EmptyThreat,
      [EmptyThreat EXCEPT !.tornado_detection = Some(tor)],
      [EmptyThreat EXCEPT !.max_wind_gust_mph = Some(wind)],
      [EmptyThreat EXCEPT !.max_hail_size_inches = Some(hail)] }

\* the text fields of a product: each one empty or carrying the product's own value
BodiesOf(text, ring, threats, areas) ==
    [headline : {"", text}, description : {"", text}, instruction : {"", text},
     polygon : {<<>>, ring}, threat : threats, affected_areas : {areas}]

\* tornado products, event number 150
VtecOf(actions, offices, sigs, ends) ==
    [action : actions, office : offices, phenomenon : {"TO"}, significance : sigs,
     event_tracking_number : {150}, end_time : ends]

Product(vtec_info, body) == [vtec |-> vtec_info, body |-> body]

\* the product that creates the entry: a warning or a watch of KCLE
FirstProducts ==
    { Product(v, b) : v \in VtecOf({"NEW"}, {KCLE}, {"W", "A"}, {None, Some(5)}),
                      b \in { x \in BodiesOf("first", RingA,
                                             {EmptyThreat,
                                              [EmptyThreat EXCEPT !.max_wind_gust_mph = Some(60)]},
                                             AreasOf(KCLE)) :
                              (x.description = "") = (x.instruction = "") } }

\* the product that follows: a continuation or a cancellation of the watch, by either office
SecondProducts ==
    UNION { { Product(v, b) : v \in VtecOf({"CON", "CAN"}, {o}, {"A"}, {None, Some(9)}),
                              b \in BodiesOf("second", RingB,
                                             Threats("RADAR INDICATED", 70, 175), AreasOf(o)) }
            : o \in {KCLE, KPBZ} }

Parsed(product) == parse_text_alert(product.vtec, product.body)

CauseOf(alert) == IF alert.status = "cancelled" THEN "cancel" ELSE "add"

\* alert_manager.add_alert(alert); the callbacks wired by wire_alert_callbacks create
\* the broadcast tasks.
DoAdd(alert) ==
    LET i == IndexOf(alerts, alert.product_id)
        r == add_alert(alerts, recent, alert, now) IN
    /\ alerts' = r.alerts
    /\ recent' = r.recent
    /\ pending' = pending \o CreateTasks(r.events, CauseOf(alert))
    /\ lastOp' = [op       |-> IF r.events = <<>> THEN "ignored" ELSE r.events[1].kind,
                  incoming |-> alert,
                  existing |-> IF i # 0 THEN Some(alerts[i]) ELSE None]
    /\ overdue' = Overdue(r.alerts, now)
    /\ fed' = fed + 1

\* the next product of the inbox goes to add_alert, as fetch_initial_alerts does with
\* the alerts it has parsed
ManagerAdd ==
    /\ inbox.todo # <<>>
    /\ DoAdd(Parsed(Head(inbox.todo)))
    /\ inbox' = [todo |-> Tail(inbox.todo), done |-> Append(inbox.done, Head(inbox.todo))]
    /\ UNCHANGED <<running, clockVars, brokerVars, geomVars, procs, ioVars>>

InitMerge ==
    /\ InitManager /\ InitClock /\ InitBroker /\ InitGeometry /\ InitHistory /\ InitIO
    /\ inbox \in {[todo |-> <<p, q>>, done |-> <<>>] : p \in FirstProducts, q \in SecondProducts}

NextMerge ==
    \/ ManagerAdd
    \/ StartBroadcast /\ UNCHANGED <<mgrVars, clockVars, geomVars, procs, inbox, histVars, ioVars>>

\* two products fed into the manager one after the other
SpecMerge == InitMerge /\ [][NextMerge]_vars

(***************************************************************************)
(* Claims about the merge                                                  *)
(***************************************************************************)
\* the stored alert a merge has just written
MergedAlert == alerts[IndexOf(alerts, lastOp.incoming.product_id)]

\* what the field of the stored alert must be after the merge: the incoming value when
\* the incoming alert has one, the value the entry had otherwise
Overwritten(incoming, old, empty) == IF incoming # empty THEN incoming ELSE old

\* C8: when add_alert merges a non-cancelled alert into an existing entry, every one of
\* headline, description, instruction, expiration, polygon and threat data that is
\* non-empty in the incoming alert replaces the stored value, and every one that is
\* empty leaves the stored value alone.
C8_MergeOverwritesEveryNonEmptyField ==
    lastOp.op = "updated" =>
        LET a == lastOp.incoming
            e == lastOp.existing[1]
            m == MergedAlert IN
        /\ m.headline = Overwritten(a.headline, e.headline, "")
        /\ m.description = Overwritten(a.description, e.description, "")
        /\ m.instruction = Overwritten(a.instruction, e.instruction, "")
        /\ m.expiration_time = Overwritten(a.expiration_time, e.expiration_time, None)
        /\ m.polygon = Overwritten(a.polygon, e.polygon, <<>>)
        /\ m.threat = Overwritten(a.threat, e.threat, EmptyThreat)

IsWatch(product) ==
    product.vtec.significance = "A" /\ ~is_cancellation(product.vtec)

\* both products are in, and they are the same watch issued by two offices
TwoOfficeWatchFed ==
    /\ inbox.todo = <<>> /\ Len(inbox.done) = 2
    /\ IsWatch(inbox.done[1]) /\ IsWatch(inbox.done[2])
    /\ inbox.done[1].vtec.phenomenon = inbox.done[2].vtec.phenomenon
    /\ inbox.done[1].vtec.event_tracking_number = inbox.done[2].vtec.event_tracking_number
    /\ inbox.done[1].vtec.office # inbox.done[2].vtec.office

\* C9: a watch with the same phenomenon and ETN fed in from two offices leaves one
\* active entry, and its affected_areas holds the UGC codes of both products.
C9_WatchOfTwoOfficesCoversBothAreas ==
    TwoOfficeWatchFed =>
        /\ Len(alerts) = 1
        /\ Range(inbox.done[1].body.affected_areas) \cup Range(inbox.done[2].body.affected_areas)
               \subseteq Range(alerts[1].affected_areas)

(***************************************************************************)
(* The expiration sweep                                                    *)
(***************************************************************************)
\* add_alert calls the model makes
MaxFeeds == 2

\* how far the model's clock runs
MaxTime == 4

PlainBody(office) ==
    [headline |-> "", description |-> "", instruction |-> "", polygon |-> RingA,
     threat |-> EmptyThreat, affected_areas |-> AreasOf(office)]

\* tornado warnings of two offices that end at tick 1 or at tick 3, and their
\* cancellations
SweepProducts ==
    { Product(v, PlainBody(v.office)) :
        v \in VtecOf({"NEW", "CAN"}, {KCLE, KPBZ}, {"W"}, {Some(1), Some(3)}) }

\* a product arrives and is added
Receive(product) ==
    /\ fed < MaxFeeds
    /\ DoAdd(Parsed(product))
    /\ UNCHANGED <<running, clockVars, brokerVars, geomVars, procs, inbox, ioVars>>

\* One tick passes.  asyncio.sleep(self._cleanup_interval) returns after
\* cleanup_interval ticks, and the loop runs cleanup_expired before more time passes.
Tick ==
    /\ now < MaxTime
    /\ running => sinceSweep < cleanup_interval
    /\ now' = now + 1
    /\ sinceSweep' = IF running THEN sinceSweep + 1 ELSE sinceSweep
    /\ overdue' = Overdue(alerts, now + 1)
    /\ UNCHANGED <<mgrVars, pending, brokerVars, geomVars, procs, inbox, fed, lastOp, ioVars>>

\* AlertManager._cleanup_loop wakes from its sleep and calls cleanup_expired
Sweep ==
    /\ running
    /\ sinceSweep = cleanup_interval
    /\ LET r == cleanup_expired(alerts, recent, now) IN
        /\ alerts' = r.alerts
        /\ recent' = r.recent
        /\ pending' = pending \o CreateTasks(r.events, "sweep")
        /\ lastOp' = [op |-> "sweep", removed |-> r.result,
                      waited |-> {overdue[id] : id \in ExpiredIds(alerts, now)}]
        /\ overdue' = Overdue(r.alerts, now)
    /\ sinceSweep' = 0
    /\ UNCHANGED <<running, now, brokerVars, geomVars, procs, inbox, fed, ioVars>>

\* AlertManager.stop_cleanup_task
StopCleanup ==
    /\ running
    /\ running' = FALSE
    /\ UNCHANGED <<alerts, recent, clockVars, pending, brokerVars, geomVars, procs,
                   inbox, histVars, ioVars>>

NoInbox == [todo |-> <<>>, done |-> <<>>]

InitSweep ==
    /\ InitManager /\ InitClock /\ InitBroker /\ InitGeometry /\ InitHistory /\ InitIO
    /\ inbox = NoInbox

NextSweep ==
    \/ \E p \in SweepProducts : Receive(p)
    \/ Tick
    \/ Sweep
    \/ StopCleanup
    \/ StartBroadcast /\ UNCHANGED <<mgrVars, clockVars, geomVars, procs, inbox, histVars, ioVars>>

\* the manager with its cleanup loop running against the clock
SpecSweep == InitSweep /\ [][NextSweep]_vars

\* C5: while the manager is running, an alert of the active set whose expiration_time
\* is at or before the current time is gone within one cleanup interval: no alert
\* stays in the active set expired for longer than cleanup_interval.
C5_ExpiredGoneWithinOneInterval ==
    running => \A id \in DOMAIN overdue : overdue[id] <= cleanup_interval

\* the sweep has just removed an alert that had waited a whole interval
C5_Witness_SweptAfterFullInterval ==
    /\ running
    /\ lastOp.op = "sweep" /\ lastOp.removed > 0
    /\ cleanup_interval \in lastOp.waited
    /\ sinceSweep = 0
    /\ ExpiredIds(alerts, now) = {}

(***************************************************************************)
(* ZoneGeometryService (services/zone_geometry_service.py)                 *)
(***************************************************************************)
\* ZoneGeometryService.__init__: cache_ttl_hours, in ticks of the model's clock
cache_ttl == 2

\* dict operations: d[key] = v and d.pop(key, None)
HasKey(d, key) == key \in DOMAIN d

Put(d, key, v) == [x \in DOMAIN d \cup {key} |-> IF x = key THEN v ELSE d[x]]

Del(d, key) == [x \in DOMAIN d \ {key} |-> d[x]]

\* ZoneGeometryService.is_forecast_zone / is_county_code, on a UGC <<state, type, number>>
is_forecast_zone(ugc_code) == ugc_code[2] = "Z"

is_county_code(ugc_code) == ugc_code[2] = "C"

\* ZoneGeometryService.get_zone_type
get_zone_type(ugc_code) ==
    IF is_forecast_zone(ugc_code) THEN Some("zone")
    ELSE IF is_county_code(ugc_code) THEN Some("county")
    ELSE None

\* ZoneGeometryService._is_cache_valid, read at time t
is_cache_valid(c, zone_id, t) ==
    HasKey(c, zone_id) /\ t - c[zone_id].cached_at < cache_ttl

\* ZoneGeometryService._get_from_cache: the stored geometry, which is None for an
\* entry that records a failed fetch
get_from_cache(c, zone_id, t) ==
    IF is_cache_valid(c, zone_id, t) THEN c[zone_id].geometry ELSE None

\* ZoneGeometryService._add_to_cache
add_to_cache(c, zone_id, geometry, t) ==
    Put(c, zone_id, [geometry |-> geometry, cached_at |-> t])

\* [lon, lat] -> [lat, lon] on every point of a ring
Swapped(ring) == [n \in 1..Len(ring) |-> <<ring[n][2], ring[n][1]>>]

\* ZoneGeometryService._parse_geometry: the outer rings of a Polygon or MultiPolygon,
\* None for anything else
parse_geometry(geometry) ==
    LET polygons ==
            IF geometry.type = "Polygon" THEN <<Swapped(geometry.coordinates[1])>>
            ELSE IF geometry.type = "MultiPolygon"
            THEN [n \in 1..Len(geometry.coordinates) |-> Swapped(geometry.coordinates[n][1])]
            ELSE <<>> IN
    IF geometry.coordinates = <<>> THEN None
    ELSE IF polygons # <<>> THEN Some(polygons) ELSE None

\* ZoneGeometryService._do_fetch, from the answer of the REST client on: `answer` is
\* None when get_zone_geometry / get_county_geometry returned None (an API error after
\* the retries, or a zone without geometry).
do_fetch(c, zone_id, answer, t) ==
    IF answer = None
    THEN [cache |-> add_to_cache(c, zone_id, None, t), result |-> None]
    ELSE LET polygons == parse_geometry(answer[1]) IN
         [cache |-> add_to_cache(c, zone_id, polygons, t), result |-> polygons]

\* mutant of fetch_zone_geometry: _pending_fetches is not consulted
fetch_zone_geometry_without_pending_check(c, pf, zone_id, t) ==
    LET cached == get_from_cache(c, zone_id, t) IN
    IF cached # None THEN [branch |-> "cached", result |-> cached, fetch |-> 0]
    ELSE IF get_zone_type(zone_id) = None
    THEN [branch |-> "invalid", result |-> None, fetch |-> 0]
    ELSE [branch |-> "fetch", result |-> None, fetch |-> 0]

\* ZoneGeometryService.fetch_zone_geometry up to its first await: which way it goes
fetch_zone_geometry(c, pf, zone_id, t) ==
    LET cached == get_from_cache(c, zone_id, t) IN
    IF cached # None THEN [branch |-> "cached", result |-> cached, fetch |-> 0]
    ELSE IF HasKey(pf, zone_id)
    THEN [branch |-> "join", result |-> None, fetch |-> pf[zone_id]]
    ELSE IF get_zone_type(zone_id) = None
    THEN [branch |-> "invalid", result |-> None, fetch |-> 0]
    ELSE [branch |-> "fetch", result |-> None, fetch |-> 0]

\* populate_alert_geometry without its first test, `if alert.polygon: return False`
zone_codes_ignoring_polygon(alert) ==
    IF alert.affected_areas = <<>> THEN <<>>
    ELSE SelectSeq(alert.affected_areas, LAMBDA ugc : get_zone_type(ugc) # None)

\* ZoneGeometryService.populate_alert_geometry: the zone codes it goes on to fetch,
\* none when it returns early
zone_codes(alert) ==
    IF alert.polygon # <<>> \/ alert.affected_areas = <<>> THEN <<>>
    ELSE SelectSeq(alert.affected_areas, LAMBDA ugc : get_zone_type(ugc) # None)

\* ZoneGeometryService.populate_alert_geometry: the polygons of the fetched zones,
\* combined
RECURSIVE all_polygons(_)
all_polygons(geometries) ==
    IF geometries = <<>> THEN <<>>
    ELSE (IF Head(geometries) # None THEN Head(geometries)[1] ELSE <<>>)
         \o all_polygons(Tail(geometries))

(***************************************************************************)
(* The NWWS push pipeline (main.py on_nwws_alert / process_alert) over the *)
(* geometry service.  Coroutines are resumed from the event loop's ready   *)
(* queue in the order they were made ready; only the answers of the REST   *)
(* API and the products of the push stream arrive at times of their own.   *)
(***************************************************************************)
\* an entry of the ready queue: the coroutine to run and where it resumes
Task(kind, k, i) == [kind |-> kind, k |-> k, i |-> i]

\* fetch_with_limit(zone_id) of fetch_multiple_zones, not yet started
Resolve0(zone_id) ==
    [zone |-> zone_id, at |-> "new", fetch |-> 0, issued |-> FALSE,
     sawInFlight |-> FALSE, result |-> None]

\* the _do_fetch tasks of the zone that have not finished
InFlight(fs, zone_id) == {f \in 1..Len(fs) : fs[f].zone = zone_id /\ fs[f].at # "done"}

\* history: the cache holds an entry for the zone that is within its TTL and records
\* that no geometry was obtained
KnownAbsent(c, zone_id, t) == is_cache_valid(c, zone_id, t) /\ c[zone_id].geometry = None

\* fetch_with_limit returns
Resolved(ps, k, i, result, seen) ==
    [ps EXCEPT ![k].resolves[i] = [@ EXCEPT !.at = "done", !.result = result,
                                            !.sawInFlight = seen]]

\* asyncio.gather: the last child to finish makes the awaiting process_alert ready
AfterResolve(ps, k) ==
    IF \A i \in 1..Len(ps[k].resolves) : ps[k].resolves[i].at = "done"
    THEN <<Task("gathered", k, 0)>>
    ELSE <<>>

\* The next product of the push stream arrives: NWWSAlertHandler._on_raw_alert parses
\* it and calls on_nwws_alert, which creates the process_alert task.
PushReceive ==
    /\ inbox.todo # <<>>
    /\ procs' = Append(procs, [alert |-> Parsed(Head(inbox.todo)), at |-> "new",
                               resolves |-> <<>>])
    /\ ready' = Append(ready, Task("proc", Len(procs) + 1, 0))
    /\ inbox' = [todo |-> Tail(inbox.todo), done |-> Append(inbox.done, Head(inbox.todo))]
    /\ UNCHANGED <<mgrVars, clockVars, pending, brokerVars, cache, pendingFetches, fetches,
                   histVars, ioVars>>

\* process_alert starts.  populate_alert_geometry returns at once for an alert with a
\* polygon or without zone codes, and add_alert follows in the same step; otherwise
\* fetch_multiple_zones gathers one fetch_with_limit task per zone code.
ProcStart ==
    /\ ready # <<>> /\ Head(ready).kind = "proc"
    /\ LET k     == Head(ready).k
           alert == procs[k].alert
           zs    == zone_codes(alert) IN
        IF zs = <<>>
        THEN /\ DoAdd(alert)
             /\ procs' = [procs EXCEPT ![k].at = "done"]
             /\ ready' = Tail(ready)
        ELSE /\ procs' = [procs EXCEPT ![k].at = "gather",
                                       ![k].resolves = [i \in 1..Len(zs) |-> Resolve0(zs[i])]]
             /\ ready' = Tail(ready) \o [i \in 1..Len(zs) |-> Task("resolve", k, i)]
             /\ UNCHANGED <<alerts, recent, pending, histVars>>
    /\ UNCHANGED <<running, clockVars, brokerVars, cache, pendingFetches, fetches, inbox, ioVars>>

\* fetch_with_limit starts and runs fetch_zone_geometry up to its first await: a cache
\* hit returns, a pending fetch is awaited (a finished one hands over its result
\* without suspending), otherwise the _do_fetch task is created and registered.
ResolveStart ==
    /\ ready # <<>> /\ Head(ready).kind = "resolve"
    /\ LET k    == Head(ready).k
           i    == Head(ready).i
           z    == procs[k].resolves[i].zone
           d    == fetch_zone_geometry(cache, pendingFetches, z, now)
           seen == InFlight(fetches, z) # {}
           f    == Len(fetches) + 1 IN
        CASE d.branch = "cached" ->
                /\ procs' = Resolved(procs, k, i, d.result, seen)
                /\ ready' = Tail(ready) \o AfterResolve(procs', k)
                /\ UNCHANGED <<cache, pendingFetches, fetches>>
          [] d.branch = "join" /\ fetches[d.fetch].at = "done" ->
                /\ procs' = Resolved(procs, k, i, fetches[d.fetch].result, seen)
                /\ ready' = Tail(ready) \o AfterResolve(procs', k)
                /\ UNCHANGED <<cache, pendingFetches, fetches>>
          [] d.branch = "join" /\ fetches[d.fetch].at # "done" ->
                /\ procs' = [procs EXCEPT ![k].resolves[i] =
                                [@ EXCEPT !.at = "wait", !.fetch = d.fetch, !.sawInFlight = seen]]
                /\ fetches' = [fetches EXCEPT ![d.fetch].awaiters = Append(@, <<k, i>>)]
                /\ ready' = Tail(ready)
                /\ UNCHANGED <<cache, pendingFetches>>
          [] d.branch = "invalid" ->
                /\ cache' = add_to_cache(cache, z, None, now)
                /\ procs' = Resolved(procs, k, i, None, seen)
                /\ ready' = Tail(ready) \o AfterResolve(procs', k)
                /\ UNCHANGED <<pendingFetches, fetches>>
          [] d.branch = "fetch" ->
                /\ fetches' = Append(fetches,
                                [zone |-> z, at |-> "created", answer |-> None, result |-> None,
                                 knownAbsent |-> KnownAbsent(cache, z, now),
                                 awaiters |-> << <<k, i>> >>])
                /\ pendingFetches' = Put(pendingFetches, z, f)
                /\ procs' = [procs EXCEPT ![k].resolves[i] =
                                [@ EXCEPT !.at = "wait", !.fetch = f, !.issued = TRUE,
                                          !.sawInFlight = seen]]
                /\ ready' = Tail(ready) \o <<Task("fetch", f, 0)>>
                /\ UNCHANGED cache
    /\ UNCHANGED <<mgrVars, clockVars, pending, brokerVars, inbox, histVars, ioVars>>

\* _do_fetch starts: the REST client sends the GET (NWSAPIClient._request; its retries
\* follow one another inside this one request)
FetchStart ==
    /\ ready # <<>> /\ Head(ready).kind = "fetch"
    /\ fetches' = [fetches EXCEPT ![Head(ready).k].at = "get"]
    /\ ready' = Tail(ready)
    /\ UNCHANGED <<mgrVars, clockVars, pending, brokerVars, cache, pendingFetches, procs,
                   inbox, histVars, ioVars>>

\* what the API may answer: nothing usable (an error, a zone without geometry), or a
\* geometry: a polygon for the Ohio county, a point for the Pennsylvania county
Answers(zone_id) ==
    { None,
      IF zone_id = OHC049
      THEN Some([type |-> "Polygon",
                 coordinates |-> << << <<-83, 41>>, <<-83, 42>>, <<-82, 41>>, <<-83, 41>> >> >>])
      ELSE Some([type |-> "Point", coordinates |-> <<-80, 40>>]) }

\* the answer to the GET of fetch f arrives
Respond(f, answer) ==
    /\ fetches[f].at = "get"
    /\ fetches' = [fetches EXCEPT ![f].at = "answered", ![f].answer = answer]
    /\ ready' = Append(ready, Task("answer", f, 0))
    /\ UNCHANGED <<mgrVars, clockVars, pending, brokerVars, cache, pendingFetches, procs,
                   inbox, histVars, ioVars>>

\* _do_fetch resumes with the answer, caches what it got and finishes; the coroutines
\* awaiting the task become ready in the order they began to wait
FetchResume ==
    /\ ready # <<>> /\ Head(ready).kind = "answer"
    /\ LET f == Head(ready).k
           r == do_fetch(cache, fetches[f].zone, fetches[f].answer, now)
           w == fetches[f].awaiters IN
        /\ cache' = r.cache
        /\ fetches' = [fetches EXCEPT ![f].at = "done", ![f].result = r.result]
        /\ ready' = Tail(ready) \o [n \in 1..Len(w) |-> Task("resolved", w[n][1], w[n][2])]
    /\ UNCHANGED <<mgrVars, clockVars, pending, brokerVars, pendingFetches, procs, inbox,
                   histVars, ioVars>>

\* fetch_zone_geometry resumes from awaiting the task; the caller that created the task
\* pops the zone from _pending_fetches (finally)
ResolveResume ==
    /\ ready # <<>> /\ Head(ready).kind = "resolved"
    /\ LET k == Head(ready).k
           i == Head(ready).i
           r == procs[k].resolves[i] IN
        /\ pendingFetches' = IF r.issued THEN Del(pendingFetches, r.zone) ELSE pendingFetches
        /\ procs' = Resolved(procs, k, i, fetches[r.fetch].result, r.sawInFlight)
        /\ ready' = Tail(ready) \o AfterResolve(procs', k)
    /\ UNCHANGED <<mgrVars, clockVars, pending, brokerVars, cache, fetches, inbox, histVars, ioVars>>

\* process_alert resumes from populate_alert_geometry, which sets the polygon when any
\* zone had one, and adds the alert to the manager
ProcResume ==
    /\ ready # <<>> /\ Head(ready).kind = "gathered"
    /\ LET k     == Head(ready).k
           rs    == procs[k].resolves
           polys == all_polygons([i \in 1..Len(rs) |-> rs[i].result])
           alert == IF polys # <<>> THEN [procs[k].alert EXCEPT !.polygon = polys]
                    ELSE procs[k].alert IN
        /\ DoAdd(alert)
        /\ procs' = [procs EXCEPT ![k].at = "done", ![k].alert = alert]
    /\ ready' = Tail(ready)
    /\ UNCHANGED <<running, clockVars, brokerVars, cache, pendingFetches, fetches, inbox, ioVars>>

\* a tornado watch of KCLE and its cancellation: over one county or two without a
\* polygon, or over one county with a polygon of its own, which is not the outline of
\* the county
IngestProducts ==
    { Product(v, b) :
        v \in VtecOf({"NEW", "CAN"}, {KCLE}, {"A"}, {None}),
        b \in { x \in [headline : {""}, description : {""}, instruction : {""},
                       polygon : {<<>>, RingB}, threat : {EmptyThreat},
                       affected_areas : {<<OHC049>>, <<OHC049, PAC003>>}] :
                    x.polygon # <<>> => x.affected_areas = <<OHC049>> } }

\* The clock of the model counts in ticks far longer than a callback runs: a tick
\* passes only while the event loop has nothing ready to run.
IdleTick == ready = <<>> /\ Tick

\* the cleanup loop wakes when its sleep has run out
IdleSweep == ready = <<>> /\ Sweep

InitIngest ==
    /\ InitManager /\ InitClock /\ InitBroker /\ InitGeometry /\ InitHistory /\ InitIO
    /\ inbox \in {[todo |-> <<p, q>>, done |-> <<>>] : p \in IngestProducts, q \in IngestProducts}

NextIngest ==
    \/ PushReceive
    \/ ProcStart
    \/ ResolveStart
    \/ FetchStart
    \/ \E f \in 1..Len(fetches) : \E a \in Answers(fetches[f].zone) : Respond(f, a)
    \/ FetchResume
    \/ ResolveResume
    \/ ProcResume
    \/ IdleTick
    \/ IdleSweep
    \/ StartBroadcast /\ UNCHANGED <<mgrVars, clockVars, geomVars, procs, inbox, histVars, ioVars>>

\* two products of the push stream feeding the manager through the geometry service
SpecIngest == InitIngest /\ [][NextIngest]_vars

(***************************************************************************)
(* Claims about the push pipeline and the geometry service                 *)
(***************************************************************************)
\* every process_alert task created so far has run to its end
AllProcessed == \A k \in 1..Len(procs) : procs[k].at = "done"

\* the push stream delivered a new-event product and then a cancellation of the same id
NewThenCancelReceived ==
    /\ Len(inbox.done) = 2
    /\ inbox.done[1].vtec.action = "NEW"
    /\ is_cancellation(inbox.done[2].vtec)
    /\ build_product_id(inbox.done[1].vtec) = build_product_id(inbox.done[2].vtec)

\* C3: when a new-event product and then a cancellation for the same product_id have
\* come in from the push stream in that order and both have been processed, the
\* active set does not contain that id.
C3_NewThenCancelLeavesIdInactive ==
    (NewThenCancelReceived /\ AllProcessed) =>
        IndexOf(alerts, build_product_id(inbox.done[1].vtec)) = 0

\* all the fetch_with_limit calls made so far, as <<process, index>>
Resolves == {<<k, i>> \in (1..Len(procs)) \X (1..2) : i <= Len(procs[k].resolves)}

\* C7: at every moment each UGC code has at most one geometry fetch that has not
\* finished, and a resolve that begins while a fetch for its UGC is in flight creates
\* no fetch of its own and returns the result of that fetch.
C7_OneFetchInFlightPerZone ==
    /\ \A z \in {OHC049, PAC003} : Cardinality(InFlight(fetches, z)) <= 1
    /\ \A r \in Resolves :
        LET x == procs[r[1]].resolves[r[2]] IN
        x.sawInFlight =>
            /\ ~x.issued
            /\ x.at = "done" => x.result = fetches[x.fetch].result

\* a resolve waits on the fetch another resolve created, while the GET is out
C7_Witness_JoinerWaitsOnFetchInFlight ==
    \E r \in Resolves :
        LET x == procs[r[1]].resolves[r[2]] IN
        /\ x.at = "wait" /\ x.sawInFlight /\ ~x.issued
        /\ fetches[x.fetch].at = "get"
        /\ Len(fetches[x.fetch].awaiters) = 2

\* C10: once a resolve of a UGC code has ended without geometry, no further resolve of
\* that code within the cache TTL issues a REST request: no fetch is created for a zone
\* while the cache holds a valid entry saying that the zone has no geometry.
C10_NoFetchWhileKnownAbsent ==
    \A f \in 1..Len(fetches) : ~fetches[f].knownAbsent

(***************************************************************************)
(* WebSocket sessions (main.py websocket_endpoint over MessageBroker)      *)
(***************************************************************************)
\* the product_ids of the active set, as the bulk snapshot lists them
ActiveIds(al) == {al[n].product_id : n \in 1..Len(al)}

\* connect() that registers the connection and writes no acknowledgment
Connect_without_ack(c) ==
    /\ pc[c] = "idle"
    /\ counter' = counter + 1
    /\ entries' = Append(entries, c)
    /\ subscriptions' = [subscriptions EXCEPT ![c] = {}]
    /\ pc' = [pc EXCEPT ![c] = "ack"]
    /\ UNCHANGED <<pending, bcasts, alive, received>>

\* MessageBroker.connect once websocket.accept() has returned: the connection is
\* counted and registered, and the acknowledgment is written (an await).
Connect(c) ==
    /\ pc[c] = "idle"
    /\ counter' = counter + 1
    /\ entries' = Append(entries, c)
    /\ subscriptions' = [subscriptions EXCEPT ![c] = {}]
    /\ received' = Deliver(received, c, [type |-> "connection_ack", client_id |-> c])
    /\ pc' = [pc EXCEPT ![c] = "ack"]
    /\ UNCHANGED <<pending, bcasts, alive>>

\* websocket_endpoint after connect() has returned: it reads the active set and sends
\* it with send_to_client_by_id, which skips a client that is no longer registered and
\* disconnects one whose write fails; then it waits in the receive loop.
Snapshot(c) ==
    /\ pc[c] = "ack"
    /\ LET bulk == [type |-> "alert_bulk", ids |-> ActiveIds(alerts)] IN
        IF c \in Live(entries)
        THEN IF alive[c]
             THEN received' = Deliver(received, c, bulk) /\ UNCHANGED entries
             ELSE entries' = PopEntry(entries, c) /\ UNCHANGED received
        ELSE UNCHANGED <<entries, received>>
    /\ pc' = [pc EXCEPT ![c] = "listening"]
    /\ UNCHANGED <<pending, counter, bcasts, alive, subscriptions>>

\* the client goes away: writes to its socket fail from now on
Kill(c) ==
    /\ pc[c] \in {"ack", "listening"}
    /\ alive[c]
    /\ alive' = [alive EXCEPT ![c] = FALSE]
    /\ UNCHANGED <<pending, entries, counter, bcasts, pc, received, subscriptions>>

\* websocket.receive_text() raises WebSocketDisconnect: the endpoint leaves its loop
\* and its finally clause calls broker.disconnect(client_id)
EndpointExit(c) ==
    /\ pc[c] = "listening"
    /\ ~alive[c]
    /\ entries' = PopEntry(entries, c)
    /\ pc' = [pc EXCEPT ![c] = "closed"]
    /\ UNCHANGED <<pending, counter, bcasts, alive, received, subscriptions>>

\* a tornado warning of KCLE that ends at tick 1, its continuation and its cancellation
FanoutProducts ==
    { Product(v, PlainBody(KCLE)) :
        v \in VtecOf({"NEW", "CON", "CAN"}, {KCLE}, {"W"}, {Some(1)}) }

\* The clients are alike and connect in any order, so it is enough that the first of
\* them may go away.
Mortal == {c \in Clients : c = 1}

restOfManager == <<mgrVars, clockVars, geomVars, procs, inbox, histVars, ioVars>>

\* no broadcast is under way
Quiet == pending = <<>> /\ Unfinished(bcasts) = <<>>

\* a tick passes, and the cleanup loop wakes, only between broadcasts
QuietTick == Quiet /\ Tick

QuietSweep == Quiet /\ Sweep

InitFanout ==
    /\ InitManager /\ InitClock /\ InitBroker /\ InitGeometry /\ InitHistory /\ InitIO
    /\ inbox = NoInbox

NextFanout ==
    \/ \E p \in FanoutProducts : Receive(p)
    \/ QuietTick
    \/ QuietSweep
    \/ \E c \in Clients : Connect(c) /\ UNCHANGED restOfManager
    \/ \E c \in Clients : Snapshot(c) /\ UNCHANGED restOfManager
    \/ \E c \in Mortal : Kill(c) /\ UNCHANGED restOfManager
    \/ \E c \in Clients : EndpointExit(c) /\ UNCHANGED restOfManager
    \/ StartBroadcast /\ UNCHANGED restOfManager
    \/ \E k \in 1..Len(bcasts) : BroadcastStep(k) /\ UNCHANGED restOfManager
    \/ \E k \in 1..Len(bcasts) : BroadcastClose(k) /\ UNCHANGED restOfManager

\* the manager feeding the broker's sessions
SpecFanout == InitFanout /\ [][NextFanout]_vars

(***************************************************************************)
(* Claims about what the sessions receive                                  *)
(***************************************************************************)
LifecycleTypes == {"alert_new", "alert_update", "alert_remove"}

\* the types of the lifecycle messages client c has received for the id, in order
Lifecycle(c, id) ==
    LET msgs == SelectSeq(received[c],
                          LAMBDA m : m.type \in LifecycleTypes /\ m.product_id = id) IN
    [n \in 1..Len(msgs) |-> msgs[n].type]

\* a prefix of: alert_new, then any number of alert_update, then alert_remove
IsLifecyclePrefix(s) ==
    \A n \in 1..Len(s) :
        /\ (n = 1) = (s[n] = "alert_new")
        /\ s[n] = "alert_remove" => n = Len(s)

\* the product_ids the model's products carry
ModelIds == {build_product_id(p.vtec) : p \in FanoutProducts}

\* C1: for every session and every product_id, the lifecycle messages the session has
\* received for the id are a prefix of one alert_new, then alert_updates, then one
\* alert_remove: no update before the add, nothing after the remove.
C1_LifecycleInCausalOrder ==
    \A c \in Clients : \A id \in ModelIds : IsLifecyclePrefix(Lifecycle(c, id))

\* C2: a session never receives an alert_new for a product_id that is in the bulk
\* snapshot sent to it when it connected.
C2_NoAddForSnapshotAlert ==
    \A c \in Clients : \A m, n \in 1..Len(received[c]) :
        (received[c][m].type = "alert_bulk" /\ received[c][n].type = "alert_new")
            => received[c][n].product_id \notin received[c][m].ids

\* C4: add_alert of a cancelled alert for an id of the active set removes the entry,
\* and the removal the sessions are told of carries the reason 'cancelled'.
C4_CancelNotifiesCancelled ==
    /\ (lastOp.op = "removed" /\ lastOp.incoming.status = "cancelled")
            => lastOp.incoming.product_id \notin ActiveIds(alerts)
    /\ \A k \in 1..Len(bcasts) :
        (bcasts[k].cause = "cancel" /\ bcasts[k].msg.type = "alert_remove"
            /\ bcasts[k].wrote # {})
            => bcasts[k].msg.reason = "cancelled"

\* C6: when a write of a broadcast to one session fails, every other session that was
\* registered at that time and can still be written to gets the message by the time
\* the broadcast has ended.
C6_FailedWriteLeavesOthersServed ==
    \A k \in 1..Len(bcasts) :
        (bcasts[k].at \in {"done", "crashed"} /\ bcasts[k].failedWhen # None)
            => \A c \in bcasts[k].failedWhen[1] : alive[c] => c \in bcasts[k].wrote

(***************************************************************************)
(* Topic filters of the sessions (MessageBroker.handle_message)            *)
(***************************************************************************)
\* the topic strings a client may name
Topics == {"state:OH", "state:PA"}

\* handle_message: the connection the message came from, none when the client is not
\* in the table ("Message from unknown client")
Dispatchable(c) == pc[c] = "listening" /\ alive[c] /\ c \in Live(entries)

\* _handle_subscribe: every topic of the message is added to the connection's set
Subscribe(c, topics) ==
    /\ Dispatchable(c)
    /\ subscriptions' = [subscriptions EXCEPT ![c] = @ \cup topics]
    /\ UNCHANGED <<pending, entries, counter, bcasts, pc, alive, received>>

\* _handle_unsubscribe: every topic of the message is discarded from the set
Unsubscribe(c, topics) ==
    /\ Dispatchable(c)
    /\ subscriptions' = [subscriptions EXCEPT ![c] = @ \ topics]
    /\ UNCHANGED <<pending, entries, counter, bcasts, pc, alive, received>>

\* tornado warnings of the Ohio office and of the Pennsylvania office; the products
\* come far enough apart for the broadcast of one to end before the next arrives
TopicProducts ==
    { Product(v, PlainBody(v.office)) :
        v \in VtecOf({"NEW"}, {KCLE, KPBZ}, {"W"}, {Some(1)}) }

\* the number of products fed while the sessions set their filters
MaxTopicFeeds == 1

\* The clients are alike and connect in any order, so it is enough that the first of
\* them sets filters.
Filtering == {c \in Clients : c = 1}

InitTopics ==
    /\ InitManager /\ InitClock /\ InitBroker /\ InitGeometry /\ InitHistory /\ InitIO
    /\ inbox = NoInbox

NextTopics ==
    \/ \E p \in TopicProducts : Quiet /\ fed < MaxTopicFeeds /\ Receive(p)
    \/ \E c \in Clients : Connect(c) /\ UNCHANGED restOfManager
    \/ \E c \in Clients : Snapshot(c) /\ UNCHANGED restOfManager
    \/ \E c \in Filtering : \E t \in Topics : Subscribe(c, {t}) /\ UNCHANGED restOfManager
    \/ \E c \in Filtering : \E t \in Topics : Unsubscribe(c, {t}) /\ UNCHANGED restOfManager
    \/ StartBroadcast /\ UNCHANGED restOfManager
    \/ \E k \in 1..Len(bcasts) : BroadcastStep(k) /\ UNCHANGED restOfManager

\* sessions that set topic filters while the manager feeds the broker
SpecTopics == InitTopics /\ [][NextTopics]_vars

\* the state topic of a lifecycle message: the state of the office that issued the
\* product the message is about
StateTopic(m) == IF m.product_id[2] = <<"C", "L", "E">> THEN "state:OH" ELSE "state:PA"

\* a lifecycle message is written to client c in this step
GetsLifecycle(c) ==
    /\ Len(received'[c]) = Len(received[c]) + 1
    /\ received'[c][Len(received'[c])].type \in LifecycleTypes

\* C11: a session whose filter set is non-empty receives a lifecycle broadcast only
\* if the topic of the message is in its filter set.
C11_FilteredSessionGetsOnlyItsTopics ==
    [][\A c \in Clients :
        (subscriptions[c] # {} /\ GetsLifecycle(c))
            => StateTopic(received'[c][Len(received'[c])]) \in subscriptions[c]]_vars

(***************************************************************************)
(* Manual clearing (main.py clear_alert_manual)                            *)
(***************************************************************************)
\* the parameters of AlertManager.remove_alert besides self
remove_alert_parameters == {"product_id"}

\* A call of remove_alert with keyword arguments: Python binds the arguments before
\* the body runs and raises TypeError for a keyword that is no parameter.
call_remove_alert(al, rc, kwargs) ==
    IF DOMAIN kwargs \subseteq remove_alert_parameters
    THEN [remove_alert(al, rc, kwargs.product_id) EXCEPT !.result = Some(@)]
    ELSE [NoChange(al, rc) EXCEPT !.result = None]

\* DELETE /api/alerts/{product_id}: remove_alert(product_id, reason="MANUAL"); the
\* exception of the call leaves the handler
ClearAlertManual(product_id) ==
    LET r == call_remove_alert(alerts, recent,
                               [product_id |-> product_id, reason |-> "MANUAL"]) IN
    /\ alerts' = r.alerts
    /\ recent' = r.recent
    /\ pending' = pending \o CreateTasks(r.events, "manual")
    /\ lastOp' = [op |-> "clear", product_id |-> product_id, reason |-> "MANUAL",
                  wasActive |-> IndexOf(alerts, product_id) # 0,
                  raised |-> r.result = None,
                  notified |-> \E n \in 1..Len(r.events) :
                                  /\ r.events[n].kind = "removed"
                                  /\ r.events[n].alert.product_id = product_id]
    /\ overdue' = Overdue(r.alerts, now)
    /\ UNCHANGED <<running, clockVars, brokerVars, geomVars, procs, inbox, fed, ioVars>>

\* the ids an operator may ask to clear
SweepIds == {build_product_id(p.vtec) : p \in SweepProducts}

NextManual ==
    \/ NextSweep
    \/ \E id \in SweepIds : ClearAlertManual(id)

\* the manager with its cleanup loop and an operator who clears alerts by hand
SpecManual == InitSweep /\ [][NextManual]_vars

\* C12: remove(id, reason) removes the alert with that id from the active set and
\* notifies the subscribers of a removal that carries the caller's reason.
C12_RemoveWithReasonRemovesAndNotifies ==
    /\ (lastOp.op = "clear" /\ lastOp.wasActive) =>
            /\ lastOp.product_id \notin ActiveIds(alerts)
            /\ lastOp.notified
    /\ \A k \in 1..Len(bcasts) :
        (bcasts[k].cause = "manual" /\ bcasts[k].msg.type = "alert_remove")
            => bcasts[k].msg.reason = "MANUAL"

(***************************************************************************)
(* Claims about populate_alert_geometry                                    *)
(***************************************************************************)
\* the alert of process_alert k as the parser handed it over
AsParsed(k) == Parsed(inbox.done[k])

\* C13: populate_alert_geometry never changes the polygon of an alert that has one:
\* an alert that came with a non-empty polygon keeps it through process_alert, and
\* only an alert whose polygon is empty gets the polygons of its zones.
C13_PopulateFillsOnlyEmptyPolygon ==
    \A k \in 1..Len(procs) :
        /\ AsParsed(k).polygon # <<>> => procs[k].alert.polygon = AsParsed(k).polygon
        /\ procs[k].alert.polygon # AsParsed(k).polygon =>
                /\ AsParsed(k).polygon = <<>>
                /\ procs[k].at = "done"

\* one process_alert has ended for an alert that came with its polygon, and another
\* for an alert that came without one and was given the polygons of its zones
C13_Witness_OneKeptOneFilled ==
    \E k, j \in 1..Len(procs) :
        /\ procs[k].at = "done" /\ AsParsed(k).polygon # <<>>
        /\ AsParsed(k).affected_areas # <<>>
        /\ procs[j].at = "done" /\ AsParsed(j).polygon = <<>>
        /\ procs[j].alert.polygon # <<>>

(***************************************************************************)
(* Claims about add_alert                                                  *)
(***************************************************************************)
\* this step is an add_alert of a cancelled alert whose id was not in the active set
AddsUnknownCancelled ==
    /\ fed' = fed + 1
    /\ lastOp'.incoming.status = "cancelled"
    /\ IndexOf(alerts, lastOp'.incoming.product_id) = 0

\* C14: add_alert of a cancelled alert whose id is not in the active set is a no-op:
\* the active set and the recent-products buffer stay as they are and no callback is
\* invoked, so no broadcast task is created.
C14_CancelOfUnknownIdIsNoOp ==
    [][AddsUnknownCancelled =>
            /\ alerts' = alerts
            /\ recent' = recent
            /\ pending' = pending
            /\ lastOp'.op = "ignored"]_vars

\* a cancellation has just been ignored while the active set held another alert
C14_Witness_CancelIgnoredBesideActiveAlert ==
    /\ lastOp.op = "ignored"
    /\ lastOp.incoming.status = "cancelled"
    /\ lastOp.existing = None
    /\ alerts # <<>>
    /\ recent # <<>>
    /\ IndexOf(alerts, lastOp.incoming.product_id) = 0

(***************************************************************************)
(* Claims about the start of a session                                     *)
(***************************************************************************)
\* the positions of the messages of the type among those client c has received
PositionsOf(c, type) == {n \in 1..Len(received[c]) : received[c][n].type = type}

\* C15: the first message written to a session is the connection_ack that carries the
\* id the session was registered under, and the bulk snapshot is written after the
\* connection_ack and before the dispatch loop handles an inbound message: whenever
\* the loop can handle one, and whenever it has handled one, the snapshot is there.
C15_AckFirstThenSnapshotBeforeDispatch ==
    \A c \in Clients :
        /\ received[c] # <<>> =>
                received[c][1] = [type |-> "connection_ack", client_id |-> c]
        /\ PositionsOf(c, "connection_ack") \subseteq {1}
        /\ \A n \in PositionsOf(c, "alert_bulk") : n > 1
        /\ (Dispatchable(c) \/ subscriptions[c] # {}) => PositionsOf(c, "alert_bulk") # {}

\* a session got its acknowledgment, then a lifecycle message, then its snapshot, and
\* its dispatch loop has handled a subscribe message since
C15_Witness_BroadcastBetweenAckAndSnapshot ==
    \E c \in Clients :
        /\ Len(received[c]) >= 3
        /\ received[c][1].type = "connection_ack"
        /\ received[c][2].type \in LifecycleTypes
        /\ received[c][3].type = "alert_bulk"
        /\ subscriptions[c] # {}

(***************************************************************************)
(* Claims about failed writes                                              *)
(***************************************************************************)
\* the sessions a broadcast that has ended failed to write to and did not disconnect
LeftBehind(b) == IF b.at \in {"done", "crashed"} THEN Range(b.disconnected) ELSE {}

\* C16: a session a write has failed for is disconnected and removed from the session
\* table: once the broadcast that met the failure has ended, the session is no longer
\* registered, so that no later broadcast writes to it.
C16_FailedSessionIsRemoved ==
    \A k \in 1..Len(bcasts) : \A c \in LeftBehind(bcasts[k]) : c \notin Live(entries)

(***************************************************************************)
(* Product ids built from VTEC records (VTECParser.build_product_id)       *)
(***************************************************************************)
KWNS == <<"K", "W", "N", "S">>
PAFC == <<"P", "A", "F", "C">>
TJSJ == <<"T", "J", "S", "J">>

\* VTEC records as VTECParser.parse returns them: four-letter offices with and without
\* the K prefix, two phenomena, watches and three other significances, event numbers
\* of one to four digits
VtecRecords ==
    [action : {"NEW"}, office : {KCLE, KWNS, PAFC, TJSJ}, phenomenon : {"TO", "SV"},
     significance : {"W", "A", "Y", "S"}, event_tracking_number : {1, 42, 150, 9999},
     end_time : {None}]

\* VTECParser.build_product_id(vtec_info) is called on the record at hand
BuildProductId ==
    /\ inbox.todo # <<>>
    /\ LET v == Head(inbox.todo) IN
        /\ lastOp' = [op |-> "build_product_id", vtec_info |-> v,
                      result |-> build_product_id(v)]
        /\ inbox' = [todo |-> Tail(inbox.todo), done |-> Append(inbox.done, v)]
    /\ UNCHANGED <<mgrVars, clockVars, pending, brokerVars, geomVars, procs, fed, overdue, ioVars>>

InitProductId ==
    /\ InitManager /\ InitClock /\ InitBroker /\ InitGeometry /\ InitHistory /\ InitIO
    /\ inbox \in {[todo |-> <<v>>, done |-> <<>>] : v \in VtecRecords}

NextProductId == BuildProductId

\* build_product_id applied to one VTEC record
SpecProductId == InitProductId /\ [][NextProductId]_vars

\* the office code without its K prefix, when it has one
WithoutK(office) == IF Head(office) = "K" THEN Tail(office) ELSE office

\* the number a sequence of decimal digits writes
RECURSIVE ValueOf(_)
ValueOf(ds) == IF ds = <<>> THEN 0 ELSE 10 * ValueOf(SubSeq(ds, 1, Len(ds) - 1)) + ds[Len(ds)]

\* the field is the event number written with four digits
IsEtn04d(field, etn) == Len(field) = 4 /\ ValueOf(field) = etn

C18_WatchIdCarriesOffice ==
    (lastOp.op = "build_product_id" /\ lastOp.vtec_info.significance = "A") =>
        LET v == lastOp.vtec_info
            id == lastOp.result IN
        /\ Len(id) = 3
        /\ id[1] = <<v.phenomenon, "A">>
        /\ id[2] = WithoutK(v.office)
        /\ IsEtn04d(id[3], v.event_tracking_number)

(***************************************************************************)
(* The parser façade (parsers/alert_parser.py) with its rejection rules,   *)
(* feeding the manager.  A raw product is a record of what the parser      *)
(* reads from it.                                                          *)
(***************************************************************************)
\* Settings.filter_states, the default
filter_states == {"OH", "IN", "IL"}

\* Settings.target_phenomena: the codes of the default list that the products of the
\* model can carry
target_phenomena == {"TO", "SV", "SPS"}

\* AlertParser._is_target_phenomenon
is_target_phenomenon(phenomenon) ==
    IF phenomenon = "" THEN FALSE
    ELSE IF target_phenomena = {} THEN TRUE
    ELSE phenomenon \in target_phenomena

\* AlertParser._is_target_state: the state is the first part of a UGC code
is_target_state(affected_areas) ==
    IF filter_states = {} THEN TRUE
    ELSE IF affected_areas = <<>> THEN FALSE
    ELSE \E n \in 1..Len(affected_areas) : affected_areas[n][1] \in filter_states

\* _filter_to_target_states that returns the list as it got it
filter_to_target_states_keeping_all(affected_areas) == affected_areas

\* AlertParser._filter_to_target_states
filter_to_target_states(affected_areas) ==
    IF filter_states = {} THEN affected_areas
    ELSE SelectSeq(affected_areas, LAMBDA ugc : ugc[1] \in filter_states)

\* AlertParser._event_name_to_phenomenon, for the event names of the model
event_name_to_phenomenon(event_name) ==
    CASE event_name = "Tornado Warning"           -> "TO"
      [] event_name = "Special Weather Statement" -> "SPS"
      [] OTHER                                    -> ""

\* The end of parse_text_alert and of parse_api_alert: the SPS filter, the phenomenon
\* and state filters, the cut of affected_areas to the target states and the
\* rejection of an alert left without areas.  None is the rejection.
apply_filters(alert, phenomenon, relevant_sps) ==
    IF phenomenon = "SPS" /\ ~relevant_sps THEN None
    ELSE IF ~is_target_phenomenon(phenomenon) THEN None
    ELSE IF ~is_target_state(alert.affected_areas) THEN None
    ELSE LET areas == filter_to_target_states(alert.affected_areas) IN
         IF areas = <<>> THEN None
         ELSE Some([alert EXCEPT !.affected_areas = areas])

\* an alert of a product without VTEC: Alert(source=...) with the product_id and the
\* fields read from the rest of the product
VteclessAlert(product_id, body) ==
    [product_id      |-> product_id,
     status          |-> "active",
     phenomenon      |-> "",
     significance    |-> "W",
     priority        |-> NewAlertPriority,
     expiration_time |-> None,
     headline        |-> body.headline,
     description     |-> body.description,
     instruction     |-> body.instruction,
     polygon         |-> body.polygon,
     threat          |-> body.threat,
     affected_areas  |-> body.affected_areas,
     last_updated    |-> 0,
     update_count    |-> 0]

\* AlertParser.parse_text_alert(raw_text) at time t, rejections included.  No product
\* of the model has the header of a watch ("TORNADO WATCH NUMBER n"), so without VTEC
\* the id is 'nwws_{timestamp}' and no phenomenon is set.
parse_text_product(raw, t) ==
    IF raw.informational THEN None
    ELSE IF raw.vtec # None
    THEN apply_filters(parse_text_alert(raw.vtec[1], raw.body), raw.vtec[1].phenomenon,
                       raw.relevant_sps)
    ELSE apply_filters(VteclessAlert(<<"nwws", t>>, raw.body), "", raw.relevant_sps)

\* AlertParser.parse_api_alert(feature) at time t.  Without VTEC the id is the last
\* path segment of the message id, or 'api_{timestamp}' when the feature has none,
\* and the phenomenon comes from the event name.
parse_api_alert(feature, t) ==
    IF feature.vtec # None
    THEN apply_filters(parse_text_alert(feature.vtec[1], feature.body),
                       feature.vtec[1].phenomenon, feature.relevant_sps)
    ELSE LET product_id == IF feature.id # None
                           THEN <<feature.id[1][Len(feature.id[1])]>>
                           ELSE <<"api", t>> IN
         apply_filters([VteclessAlert(product_id, feature.body) EXCEPT
                            !.phenomenon = event_name_to_phenomenon(feature.event)],
                       event_name_to_phenomenon(feature.event), feature.relevant_sps)

\* a product body without text fields and polygon, over the areas
BareBody(areas) ==
    [headline |-> "", description |-> "", instruction |-> "", polygon |-> <<>>,
     threat |-> EmptyThreat, affected_areas |-> areas]

TextProduct(informational, vtec, event, sent, relevant_sps, areas) ==
    [kind |-> "text", informational |-> informational, vtec |-> vtec,
     event |-> event, sent |-> sent, relevant_sps |-> relevant_sps,
     body |-> BareBody(areas)]

ApiFeature(id, vtec, event, sent, relevant_sps, areas) ==
    [kind |-> "api", id |-> id, vtec |-> vtec, event |-> event, sent |-> sent,
     relevant_sps |-> relevant_sps, body |-> BareBody(areas)]

\* text products with VTEC: a tornado warning of KCLE, new, cancelled or expired, with
\* an Ohio county, with a Pennsylvania county, or without a UGC line
VtecTexts ==
    { TextProduct(FALSE, Some(v), "Tornado Warning", 0, FALSE, areas) :
        v \in VtecOf({"NEW", "CAN", "EXP"}, {KCLE}, {"W"}, {Some(1)}),
        areas \in {<<>>, <<OHC049>>, <<PAC003>>} }

\* a Hazardous Weather Outlook
OtherTexts ==
    { TextProduct(TRUE, None, "Hazardous Weather Outlook", 0, FALSE, <<OHC049>>) }

\* the message ids the API gives: URLs, as sequences of path segments
MessageIds == { <<"alerts", "urn:oid:1">>, <<"alerts", "urn:oid:2">> }

\* Copies of a Special Weather Statement without VTEC, issued at `sent` for the
\* areas: as text from the push stream, and as features of the API with a message id
\* or without one.
SpsCopies(sent, relevant_sps, areas) ==
    { TextProduct(FALSE, None, "Special Weather Statement", sent, relevant_sps, areas) }
    \cup { ApiFeature(id, None, "Special Weather Statement", sent, relevant_sps, areas) :
            id \in {None} \cup {Some(m) : m \in MessageIds} }

SpsProducts ==
    UNION { SpsCopies(0, relevant_sps, areas) :
            relevant_sps \in BOOLEAN, areas \in {<<OHC049>>, <<OHC049, PAC003>>} }

RawProducts == VtecTexts \cup OtherTexts \cup SpsProducts

\* NWWSAlertHandler._on_raw_alert / NWSAPIClient.fetch_and_parse_alerts: the next raw
\* product is parsed, and the alert, if one is returned, goes to add_alert
HandleRaw ==
    /\ inbox.todo # <<>>
    /\ LET raw == Head(inbox.todo)
           parsed == IF raw.kind = "text" THEN parse_text_product(raw, now)
                     ELSE parse_api_alert(raw, now) IN
        IF parsed = None
        THEN /\ lastOp' = [op |-> "rejected", raw |-> raw]
             /\ UNCHANGED <<alerts, recent, pending, fed, overdue>>
        ELSE DoAdd(parsed[1])
    /\ inbox' = [todo |-> Tail(inbox.todo), done |-> Append(inbox.done, Head(inbox.todo))]
    /\ UNCHANGED <<running, clockVars, brokerVars, geomVars, procs, ioVars>>

InitParse ==
    /\ InitManager /\ InitClock /\ InitBroker /\ InitGeometry /\ InitHistory /\ InitIO
    /\ inbox \in {[todo |-> <<a, b>>, done |-> <<>>] : a \in RawProducts, b \in RawProducts}

NextParse ==
    \/ HandleRaw
    \/ Tick

\* two raw products, received at times of their own, parsed and fed to the manager
SpecParse == InitParse /\ [][NextParse]_vars

(***************************************************************************)
(* Claims about the parser                                                 *)
(***************************************************************************)
\* a raw product is a Special Weather Statement without VTEC
IsVteclessSps(raw) == raw.vtec = None /\ raw.event = "Special Weather Statement"

\* both products have been handled, and they were copies of one thunderstorm-related
\* Special Weather Statement for the target states: same issued time, same UGC codes
TwoCopiesOfOneSpsHandled ==
    /\ inbox.todo = <<>>
    /\ IsVteclessSps(inbox.done[1]) /\ IsVteclessSps(inbox.done[2])
    /\ inbox.done[1].sent = inbox.done[2].sent
    /\ inbox.done[1].body.affected_areas = inbox.done[2].body.affected_areas
    /\ inbox.done[1].relevant_sps /\ inbox.done[2].relevant_sps

\* C19: two independently received copies of one VTEC-less Special Weather Statement
\* (same issued time, same UGC codes) get the same product_id, so that feeding both
\* into the alert manager yields one entry.
C19_CopiesOfOneSpsCollapse ==
    TwoCopiesOfOneSpsHandled => Len(alerts) = 1

\* the last product handled was a text product with a terminating VTEC action
TerminatingTextHandled ==
    /\ inbox.done # <<>>
    /\ LET raw == inbox.done[Len(inbox.done)] IN
        /\ raw.kind = "text" /\ ~raw.informational
        /\ raw.vtec # None /\ raw.vtec[1].action \in {"CAN", "EXP"}

\* C20: parsing a text product whose VTEC action is CAN or EXP returns an alert, not a
\* rejection, and the alert has status cancelled.
C20_TerminatingProductParsesToCancelled ==
    TerminatingTextHandled =>
        /\ lastOp.op # "rejected"
        /\ lastOp.incoming.status = "cancelled"

\* the raw product handled last
LastRaw == inbox.done[Len(inbox.done)]

\* the UGC codes of the sequence whose state is in the filter
InFilter(areas) == {n \in 1..Len(areas) : areas[n][1] \in filter_states}

isoformat(t) == <<"iso", t>>

\* datetime.fromisoformat
fromisoformat(text) == text[2]

\* Alert.to_dict, the fields of the model: the datetimes become ISO strings, priority
\* its number
to_dict(alert) ==
    [alert EXCEPT !.expiration_time = IF alert.expiration_time # None
                                      THEN isoformat(alert.expiration_time[1]) ELSE None,
                  !.last_updated    = isoformat(alert.last_updated)]

\* Alert.from_dict: the datetime fields are parsed back, the priority of the dict is
\* passed to the constructor, and __post_init__ runs on the whole record
from_dict(data) ==
    [data EXCEPT !.expiration_time = IF data.expiration_time # None
                                     THEN Some(fromisoformat(data.expiration_time)) ELSE None,
                 !.last_updated    = fromisoformat(data.last_updated),
                 !.priority        = post_init_priority(data.priority, data.phenomenon,
                                                        data.significance)]

\* what can go wrong in save_to_file: mkdir or open fails before the file is touched,
\* or json.dump fails after open(path, "w") has truncated it
SaveOutcomes == {"none", "mkdir_error", "open_error", "write_error"}

\* AlertManager.save_to_file with that outcome: every failure is caught and logged
save_to_file(al, file, outcome) ==
    CASE outcome = "none"        -> [state |-> "valid",
                                     alerts |-> [k \in 1..Len(al) |-> to_dict(al[k])]]
      [] outcome = "write_error" -> [state |-> "corrupt", alerts |-> <<>>]
      [] OTHER                   -> file

\* what can go wrong in load_from_file: the stat of path.exists() fails with an error
\* other than "no such file", or open/json.load fails
LoadOutcomes == {"none", "stat_error", "read_error"}

\* mutant of load_from_file: the expired alerts of the file are loaded as well
load_from_file_keeping_expired(file, t, outcome, exists_raises) ==
    IF file.state = "absent" \/ outcome # "none" \/ file.state = "corrupt"
    THEN [alerts |-> <<>>, result |-> 0, raised |-> FALSE,
          failure |-> IF file.state = "absent" THEN "none" ELSE "read_error"]
    ELSE [alerts |-> [k \in 1..Len(file.alerts) |-> from_dict(file.alerts[k])],
          result |-> Len(file.alerts), raised |-> FALSE, failure |-> "none"]

\* AlertManager.load_from_file on a new manager at time t.  path.exists() is called
\* outside the try block: when its stat fails, pathlib either re-raises the OSError
\* or answers False, depending on the error and the library version
\* (exists_raises).  Everything after it is inside the try block.
load_from_file(file, t, outcome, exists_raises) ==
    IF outcome = "stat_error"
    THEN [alerts |-> <<>>, result |-> 0, raised |-> exists_raises, failure |-> "stat_error"]
    ELSE IF file.state = "absent"
    THEN [alerts |-> <<>>, result |-> 0, raised |-> FALSE, failure |-> "none"]
    ELSE IF outcome = "read_error" \/ file.state = "corrupt"
    THEN [alerts |-> <<>>, result |-> 0, raised |-> FALSE, failure |-> "read_error"]
    ELSE LET loaded == SelectSeq([k \in 1..Len(file.alerts) |-> from_dict(file.alerts[k])],
                                 LAMBDA a : ~is_expired(a, t)) IN
         [alerts |-> loaded, result |-> Len(loaded), raised |-> FALSE, failure |-> "none"]

\* start_alert_manager: a new manager loads the file and starts its cleanup task; an
\* exception of load_from_file leaves start_alert_manager before the task is started
StartManager ==
    /\ ~running
    /\ \E outcome \in LoadOutcomes, exists_raises \in BOOLEAN :
        LET r == load_from_file(disk, now, outcome, exists_raises) IN
        /\ alerts' = r.alerts
        /\ recent' = <<>>
        /\ running' = ~r.raised
        /\ lastOp' = [op |-> "load_from_file", failure |-> r.failure, raised |-> r.raised,
                      at |-> now, file |-> disk]
        /\ overdue' = Overdue(r.alerts, now)
    /\ sinceSweep' = 0
    /\ UNCHANGED <<now, pending, brokerVars, geomVars, procs, inbox, fed, ioVars>>

\* stop_alert_manager: stop_cleanup_task, then save_to_file
StopManager ==
    /\ running
    /\ running' = FALSE
    /\ \E outcome \in SaveOutcomes :
        /\ disk' = save_to_file(alerts, disk, outcome)
        /\ lastOp' = [op |-> "save_to_file", failure |-> outcome, raised |-> FALSE,
                      before |-> alerts]
    /\ UNCHANGED <<alerts, recent, clockVars, pending, brokerVars, geomVars, procs, inbox,
                   fed, overdue, nwws, api, calls, svc>>

\* the service is not started yet and no file exists
InitPersist ==
    /\ alerts = <<>> /\ recent = <<>> /\ running = FALSE
    /\ InitClock /\ InitBroker /\ InitGeometry /\ InitHistory /\ InitIO
    /\ inbox = NoInbox

\* two tornado warnings: that of KCLE ends at tick 1, that of KPBZ at tick 3
PersistProducts ==
    { Product(v, PlainBody(v.office)) :
        v \in VtecOf({"NEW"}, {KCLE}, {"W"}, {Some(1)})
               \cup VtecOf({"NEW"}, {KPBZ}, {"W"}, {Some(3)}) }

NextPersist ==
    \/ StartManager
    \/ \E p \in PersistProducts : running /\ Receive(p)
    \/ Tick
    \/ Sweep
    \/ StopManager

\* the service started and stopped again and again, its active set saved on stop
\* and loaded on start
SpecPersist == InitPersist /\ [][NextPersist]_vars

\* the alerts of the pair agree in phenomenon and significance
SameClass(a, b) == a.phenomenon = b.phenomenon /\ a.significance = b.significance

\* C22: the priority of an alert is determined by its phenomenon and significance
\* alone: any two alerts of the active set with equal phenomenon and significance have
\* equal priority, whether they came from a parser or from the persisted file.
C22_PriorityDeterminedByClass ==
    \A i, j \in 1..Len(alerts) :
        SameClass(alerts[i], alerts[j]) => alerts[i].priority = alerts[j].priority

\* C26: after the manager has loaded the persisted active set, the active set holds
\* no alert whose expiration_time was at or before the time of the load.
C26_NothingExpiredAfterLoad ==
    lastOp.op = "load_from_file" =>
        \A i \in 1..Len(alerts) : ~is_expired(alerts[i], lastOp.at)

\* the file held an alert that had expired and one that had not, and only the second
\* is in the active set after the load
C26_Witness_ExpiredLeftInFile ==
    /\ lastOp.op = "load_from_file" /\ lastOp.failure = "none"
    /\ Len(lastOp.file.alerts) = 2
    /\ \E k \in 1..2 : fromisoformat(lastOp.file.alerts[k].expiration_time) <= lastOp.at
    /\ Len(alerts) = 1
    /\ alerts[1].expiration_time[1] > lastOp.at

\* C27: a disk failure while saving or loading never reaches the caller as an
\* exception; a failed save leaves the active set as it was and a failed load leaves
\* it empty.
C27_DiskFailureStaysInside ==
    /\ (lastOp.op = "save_to_file" /\ lastOp.failure # "none") =>
            ~lastOp.raised /\ alerts = lastOp.before
    /\ (lastOp.op = "load_from_file" /\ lastOp.failure # "none") =>
            ~lastOp.raised /\ alerts = <<>>

(***************************************************************************)
(* Polygons (parsers/alert_parser.py, services/zone_geometry_service.py)   *)
(***************************************************************************)
\* AlertParser._parse_geojson_geometry: the outer ring of a Polygon, or of the first
\* polygon of a MultiPolygon, [lon, lat] swapped to [lat, lon]; the result is that one
\* ring, a list of points
parse_geojson_geometry(geometry) ==
    IF geometry.type = "Polygon" /\ geometry.coordinates # <<>>
    THEN Swapped(geometry.coordinates[1])
    ELSE IF geometry.type = "MultiPolygon" /\ geometry.coordinates # <<>>
    THEN IF geometry.coordinates[1] # <<>> THEN Swapped(geometry.coordinates[1][1]) ELSE <<>>
    ELSE <<>>

\* the range test of the LAT...LON branch
InUsBounds(lat, lon) == 20 <= lat /\ lat <= 60 /\ -130 <= lon /\ lon <= -60

\* AlertParser._parse_text_polygon on the values PATTERN_COORD_VALUE finds in the
\* LAT...LON block: pairs of latitude and west longitude in hundredths of a degree (the
\* values of the model are whole degrees, so the division is exact).  Points out of
\* range are dropped, and a result of three points or more is closed.  The result is
\* one ring, a list of points.
parse_text_polygon(values) ==
    LET pts    == IF Len(values) >= 2 /\ Len(values) % 2 = 0
                  THEN [k \in 1..(Len(values) \div 2) |->
                           <<values[2 * k - 1] \div 100, -(values[2 * k] \div 100)>>]
                  ELSE <<>>
        coords == SelectSeq(pts, LAMBDA p : InUsBounds(p[1], p[2])) IN
    IF Len(coords) >= 3 /\ coords[1] # coords[Len(coords)]
    THEN Append(coords, coords[1])
    ELSE coords

\* the longest LAT...LON block of the model, in pairs
MaxPairs == 4

\* the pairs a LAT...LON block is made of: three corners in Ohio and one value pair
\* out of range
CoordPairs == {<<4100, 8300>>, <<4200, 8300>>, <<4100, 8200>>, <<1000, 8300>>}

RECURSIVE Flat(_)
Flat(pairs) == IF pairs = <<>> THEN <<>> ELSE Head(pairs) \o Flat(Tail(pairs))

\* LAT...LON blocks: up to MaxPairs pairs, and the same with a value left over
TextBlocks ==
    LET blocks == {Flat(ps) : ps \in UNION {[1..n -> CoordPairs] : n \in 0..MaxPairs}} IN
    blocks \cup {Append(b, 4100) : b \in {x \in blocks : Len(x) <= 2}}

\* closed GeoJSON rings, [lon, lat]
LonLatA == << <<-83, 41>>, <<-83, 42>>, <<-82, 41>>, <<-83, 41>> >>
LonLatB == << <<-80, 40>>, <<-80, 41>>, <<-79, 40>>, <<-80, 40>> >>

\* the geometries of API features and of zones: polygons with and without a hole,
\* multipolygons, a point, and an empty geometry
GeoJsonGeometries ==
    { [type |-> "Polygon", coordinates |-> <<LonLatA>>],
      [type |-> "Polygon", coordinates |-> <<LonLatA, LonLatB>>],
      [type |-> "Polygon", coordinates |-> <<>>],
      [type |-> "MultiPolygon", coordinates |-> << <<LonLatA>>, <<LonLatB>> >>],
      [type |-> "MultiPolygon", coordinates |-> << <<LonLatB>> >>],
      [type |-> "Point", coordinates |-> <<-80, 40>>] }

\* one polygon source: the LAT...LON block of a text product, the geometry of an API
\* feature, or the geometries fetched for the two zones of an alert without polygon
PolygonSources ==
    {[from |-> "text", values |-> v] : v \in TextBlocks}
    \cup {[from |-> "geojson", geometry |-> g] : g \in GeoJsonGeometries}
    \cup {[from |-> "zones", geometries |-> <<g, h>>] : g, h \in GeoJsonGeometries}

\* what Alert.polygon holds after the source has been read: parse_text_alert and
\* parse_api_alert assign the parser's result, populate_alert_geometry the combined
\* polygons of the zones
PolygonFrom(source) ==
    CASE source.from = "text"    -> parse_text_polygon(source.values)
      [] source.from = "geojson" -> parse_geojson_geometry(source.geometry)
      [] source.from = "zones"   ->
            all_polygons([k \in 1..Len(source.geometries) |->
                            parse_geometry(source.geometries[k])])

\* the polygon of the next source is read into an alert
ReadPolygon ==
    /\ inbox.todo # <<>>
    /\ LET source == Head(inbox.todo) IN
        /\ lastOp' = [op |-> "polygon", from |-> source.from, source |-> source,
                      polygon |-> PolygonFrom(source)]
        /\ inbox' = [todo |-> Tail(inbox.todo), done |-> Append(inbox.done, source)]
    /\ UNCHANGED <<mgrVars, clockVars, pending, brokerVars, geomVars, procs, fed, overdue,
                   ioVars>>

InitPolygon ==
    /\ InitManager /\ InitClock /\ InitBroker /\ InitGeometry /\ InitHistory /\ InitIO
    /\ inbox \in {[todo |-> <<s>>, done |-> <<>>] : s \in PolygonSources}

NextPolygon == ReadPolygon

\* the polygon of one source read into an alert
SpecPolygon == InitPolygon /\ [][NextPolygon]_vars

\* a [lat, lon] pair
IsPoint(v) == v \in Int \X Int

\* a list of rings: no element is itself a point, and every element is a list of points
IsListOfRings(polygon) ==
    \A n \in 1..Len(polygon) :
        /\ ~IsPoint(polygon[n])
        /\ \A k \in 1..Len(polygon[n]) : IsPoint(polygon[n][k])

\* a ring of three points or more ends where it begins
IsClosed(ring) == Len(ring) >= 3 => ring[1] = ring[Len(ring)]

\* C23: a non-empty polygon held by an alert, whether it came from GeoJSON, from a
\* LAT...LON block or from the geometry resolver, is a list of rings, and each ring of
\* three points or more has its first point equal to its last.
C23_PolygonIsListOfClosedRings ==
    (lastOp.op = "polygon" /\ lastOp.polygon # <<>>) =>
        /\ IsListOfRings(lastOp.polygon)
        /\ \A n \in 1..Len(lastOp.polygon) : IsClosed(lastOp.polygon[n])

(***************************************************************************)
(* Damage tiers (models/alert.py ThreatData, parsers/threat_parser.py)     *)
(***************************************************************************)
\* ThreatData.is_pds
is_pds(threat) ==
    \/ threat.tornado_damage_threat \in {Some("CONSIDERABLE"), Some("CATASTROPHIC")}
    \/ threat.wind_damage_threat \in {Some("CONSIDERABLE"), Some("DESTRUCTIVE"),
                                      Some("CATASTROPHIC")}
    \/ threat.hail_damage_threat \in {Some("CONSIDERABLE"), Some("CATASTROPHIC")}

\* the damage tiers ThreatParser.parse can set: what PATTERN_TORNADO_DAMAGE,
\* PATTERN_WIND_DAMAGE, PATTERN_HAIL_DAMAGE and PATTERN_FLOOD_DAMAGE match, or None
DamageTiers ==
    [tornado_damage_threat     : {None, Some("CONSIDERABLE"), Some("CATASTROPHIC")},
     wind_damage_threat        : {None, Some("CONSIDERABLE"), Some("DESTRUCTIVE"),
                                  Some("CATASTROPHIC")},
     hail_damage_threat        : {None, Some("CONSIDERABLE"), Some("CATASTROPHIC")},
     flash_flood_damage_threat : {None, Some("CONSIDERABLE"), Some("CATASTROPHIC")}]

\* is_pds is read from the threat block of the next alert
ReadIsPds ==
    /\ inbox.todo # <<>>
    /\ LET threat == Head(inbox.todo) IN
        /\ lastOp' = [op |-> "is_pds", threat |-> threat, result |-> is_pds(threat)]
        /\ inbox' = [todo |-> Tail(inbox.todo), done |-> Append(inbox.done, threat)]
    /\ UNCHANGED <<mgrVars, clockVars, pending, brokerVars, geomVars, procs, fed, overdue,
                   ioVars>>

InitThreat ==
    /\ InitManager /\ InitClock /\ InitBroker /\ InitGeometry /\ InitHistory /\ InitIO
    /\ inbox \in {[todo |-> <<t>>, done |-> <<>>] : t \in DamageTiers}

NextThreat == ReadIsPds

\* is_pds read from one threat block
SpecThreat == InitThreat /\ [][NextThreat]_vars

\* the tier is CONSIDERABLE or above
ConsiderableOrAbove(tier) ==
    tier \in {Some("CONSIDERABLE"), Some("DESTRUCTIVE"), Some("CATASTROPHIC")}

\* C24: is_pds is true exactly when at least one of the tornado, wind, hail and
\* flash-flood damage tiers is CONSIDERABLE, DESTRUCTIVE or CATASTROPHIC.
C24_IsPdsIffSomeTierConsiderable ==
    lastOp.op = "is_pds" =>
        (lastOp.result <=>
            \/ ConsiderableOrAbove(lastOp.threat.tornado_damage_threat)
            \/ ConsiderableOrAbove(lastOp.threat.wind_damage_threat)
            \/ ConsiderableOrAbove(lastOp.threat.hail_damage_threat)
            \/ ConsiderableOrAbove(lastOp.threat.flash_flood_damage_threat))

(***************************************************************************)
(* NWWSClient._on_muc_message (services/nwws_client.py)                    *)
(***************************************************************************)
\* NWWSConfig.nickname
nickname == "AlertDashboard"

\* Text is a sequence of tokens: a letter "T", a blank " ", and the entities "&amp;"
\* and "&lt;" as the server encodes them.
\* html.unescape: every entity becomes the character it names
RECURSIVE unescape(_)
unescape(text) ==
    IF text = <<>> THEN <<>>
    ELSE << CASE Head(text) = "&amp;" -> "&"
              [] Head(text) = "&lt;"  -> "<"
              [] OTHER                -> Head(text) >> \o unescape(Tail(text))

\* str.strip: the blanks at both ends are removed
RECURSIVE strip(_)
strip(text) ==
    IF text = <<>> THEN <<>>
    ELSE IF Head(text) = " " THEN strip(Tail(text))
    ELSE IF text[Len(text)] = " " THEN strip(SubSeq(text, 1, Len(text) - 1))
    ELSE text

\* mutant of _on_muc_message: without the {nwws-oi}x element the body is handed on
on_muc_message_falling_back_to_body(msg) ==
    IF msg.type # "groupchat" \/ msg.mucnick = nickname THEN <<>>
    ELSE IF msg.x # None /\ msg.x[1] # <<>>
    THEN IF strip(unescape(msg.x[1])) # <<>> THEN <<strip(unescape(msg.x[1]))>> ELSE <<>>
    ELSE IF msg.body # <<>> THEN <<msg.body>> ELSE <<>>

\* NWWSClient._on_muc_message: the calls of the raw-product callback it makes, each
\* by its argument.  msg.x is the text of the {nwws-oi}x child, None without one.
on_muc_message(msg) ==
    IF msg.type # "groupchat" \/ msg.mucnick = nickname THEN <<>>
    ELSE IF msg.x # None /\ msg.x[1] # <<>>
    THEN IF strip(unescape(msg.x[1])) # <<>> THEN <<strip(unescape(msg.x[1]))>> ELSE <<>>
    ELSE <<>>

\* the longest text of a {nwws-oi}x element, in tokens
MaxText == 3

\* the texts of the element
ElementTexts == UNION {[1..n -> {"T", " ", "&amp;", "&lt;"}] : n \in 0..MaxText}

\* messages of the room: of the feed or under the client's own nickname, with or
\* without the element, with a summary line as body or none
MucMessages ==
    [type : {"groupchat", "normal"}, mucnick : {"nwws-oi", nickname},
     x : {None} \cup {Some(t) : t \in ElementTexts}, body : {<<>>, <<"S">>}]

\* a message of the room is handled
OnMucMessage ==
    /\ inbox.todo # <<>>
    /\ LET msg == Head(inbox.todo) IN
        /\ lastOp' = [op |-> "muc_message", msg |-> msg, calls |-> on_muc_message(msg)]
        /\ inbox' = [todo |-> Tail(inbox.todo), done |-> Append(inbox.done, msg)]
    /\ UNCHANGED <<mgrVars, clockVars, pending, brokerVars, geomVars, procs, fed, overdue,
                   ioVars>>

InitMuc ==
    /\ InitManager /\ InitClock /\ InitBroker /\ InitGeometry /\ InitHistory /\ InitIO
    /\ inbox \in {[todo |-> <<m>>, done |-> <<>>] : m \in MucMessages}

NextMuc == OnMucMessage

\* one message of the room handled by the client
SpecMuc == InitMuc /\ [][NextMuc]_vars

\* C25: the raw-product callback is called only for a group-chat message that is
\* not under the client's own nickname and has a {nwws-oi}x element, and its argument
\* is the text of that element with the HTML entities decoded (the client hands it
\* on trimmed), never the body of the message.
C25_CallbackGetsDecodedElementText ==
    lastOp.op = "muc_message" =>
        \A n \in 1..Len(lastOp.calls) :
            /\ lastOp.msg.type = "groupchat"
            /\ lastOp.msg.mucnick # nickname
            /\ lastOp.msg.x # None
            /\ lastOp.calls[n] = strip(unescape(lastOp.msg.x[1]))
            /\ lastOp.calls[n] # lastOp.msg.body

\* a message of the feed with a body and an element whose text holds an encoded
\* ampersand: the callback got the decoded text
C25_Witness_EntityDecoded ==
    /\ lastOp.op = "muc_message"
    /\ lastOp.msg.body = <<"S">>
    /\ lastOp.msg.x = Some(<<"T", "&amp;", " ">>)
    /\ lastOp.calls = << <<"T", "&">> >>

(***************************************************************************)
(* NWWSClient reconnection (services/nwws_client.py)                       *)
(***************************************************************************)
\* NWWSConfig.reconnect_delay and max_reconnect_delay, in seconds
reconnect_delay == 5
max_reconnect_delay == 300

\* how many reconnect tasks the model lets the client create
MaxReconnectTasks == 3

\* how many connection attempts the model lets each of several reconnect tasks make
MaxTaskAttempts == 2

\* a task made by asyncio.create_task(self._attempt_reconnect()): where the coroutine
\* stands ("new" before its first step, "sleep" in asyncio.sleep(wait_time), "wait" in
\* asyncio.sleep(10) after connect(), "done"), whether cancel() was called on it, its
\* wait_time, and, as history, how many times it has called connect()
NewTask == [at |-> "new", cancelled |-> FALSE, wait_time |-> reconnect_delay, attempts |-> 0]

\* Task.done()
done(task) == task.at = "done"

\* `self._reconnect_task and not self._reconnect_task.done()`
TaskActive(n) == n.reconnect_task # 0 /\ ~done(n.tasks[n.reconnect_task])

\* self._reconnect_task.cancel() when the task is active
cancel_reconnect_task(n) ==
    IF TaskActive(n) THEN [n.tasks EXCEPT ![n.reconnect_task].cancelled = TRUE] ELSE n.tasks

\* mutant of _on_disconnected_event: a task is created whether or not one is active
on_disconnected_event_always_scheduling(n) ==
    IF n.should_reconnect
    THEN [n EXCEPT !.connected = FALSE, !.tasks = Append(@, NewTask),
                   !.reconnect_task = Len(n.tasks) + 1]
    ELSE [n EXCEPT !.connected = FALSE]

\* NWWSClient._on_disconnected_event
on_disconnected_event(n) ==
    IF n.should_reconnect /\ ~TaskActive(n)
    THEN [n EXCEPT !.connected = FALSE, !.tasks = Append(@, NewTask),
                   !.reconnect_task = Len(n.tasks) + 1]
    ELSE [n EXCEPT !.connected = FALSE]

\* NWWSClient.start: connect() begins to open the stream
StartClient ==
    /\ nwws.link = "idle"
    /\ ~nwws.stopped
    /\ nwws' = [nwws EXCEPT !.should_reconnect = TRUE, !.link = "connecting"]
    /\ UNCHANGED <<mgrVars, clockVars, pending, brokerVars, geomVars, procs, inbox,
                   histVars, disk, api, calls, svc>>

\* the stream is lost or closed, or an attempt to open it fails: slixmpp raises
\* "disconnected"
Disconnected ==
    /\ nwws.link # "idle"
    /\ Len(on_disconnected_event(nwws).tasks) <= MaxReconnectTasks
    /\ nwws' = [on_disconnected_event(nwws) EXCEPT
                  !.link = "down",
                  !.dropped_after_stop = @ \/ nwws.stopped]
    /\ UNCHANGED <<mgrVars, clockVars, pending, brokerVars, geomVars, procs, inbox,
                   histVars, disk, api, calls, svc>>

\* as on_session_start, without the cancel() of lines 89-90
on_session_start_without_cancel(n) ==
    [n EXCEPT !.session = "get_roster", !.stanzas = <<"get_roster">>,
              !.reconnect_task = 0]

\* NWWSClient._on_session_start up to its first await: an active reconnect task is
\* cancelled, _reconnect_task is set to None, and the roster is requested
on_session_start(n) ==
    [n EXCEPT !.session = "get_roster", !.stanzas = <<"get_roster">>,
              !.tasks = cancel_reconnect_task(n),
              !.reconnect_task = 0]

\* the stream opens and slixmpp raises "session_start"
SessionStart ==
    /\ nwws.link = "connecting"
    /\ nwws' = [on_session_start(nwws) EXCEPT !.link = "up"]
    /\ UNCHANGED <<mgrVars, clockVars, pending, brokerVars, geomVars, procs, inbox,
                   histVars, disk, api, calls, svc>>

\* _on_session_start resumes from `await self.get_roster()`: the roster has come, and
\* the client sends its presence and asks to join the room; or get_roster raises and
\* the exception is logged
SessionRosterEnds ==
    /\ nwws.session = "get_roster"
    /\ \E fetched \in BOOLEAN :
        nwws' = IF fetched /\ nwws.link = "up"
                THEN [nwws EXCEPT !.session = "join_muc",
                                  !.stanzas = @ \o <<"presence", "join_muc">>]
                ELSE [nwws EXCEPT !.session = "none"]
    /\ UNCHANGED <<mgrVars, clockVars, pending, brokerVars, geomVars, procs, inbox,
                   histVars, disk, api, calls, svc>>

\* _on_session_start resumes from `await join_muc(...)` and ends: the room is joined
\* and _connected set, or the exception is logged
SessionSetupEnds ==
    /\ nwws.session = "join_muc"
    /\ \E joined \in BOOLEAN :
        nwws' = [nwws EXCEPT !.session = "none",
                             !.connected = IF joined /\ nwws.link = "up" THEN TRUE ELSE @]
    /\ UNCHANGED <<mgrVars, clockVars, pending, brokerVars, geomVars, procs, inbox,
                   histVars, disk, api, calls, svc>>

\* as Backoff, without the cap
Backoff_uncapped(wait_time) == wait_time * 2

\* min(wait_time * 2, max_reconnect_delay)
Backoff(wait_time) == Min(wait_time * 2, max_reconnect_delay)

\* One step of _attempt_reconnect, task k, which the model lets make `limit` attempts.
\* A cancelled task gets CancelledError at its
\* await (or never starts) and ends.  Otherwise: the loop is entered while
\* _should_reconnect; after the sleep connect() is called, which may raise; after the
\* ten seconds the task ends if _connected, else it backs off and goes round.
ReconnectStep(k, limit) ==
    LET task == nwws.tasks[k]
        tried == [task EXCEPT !.attempts = @ + 1]
        again(t) == [t EXCEPT !.wait_time = Backoff(@),
                              !.at = IF nwws.should_reconnect THEN "sleep" ELSE "done"] IN
    /\ ~done(task)
    /\ \/ /\ task.cancelled
          /\ nwws' = [nwws EXCEPT !.tasks[k].at = "done"]
       \/ /\ ~task.cancelled /\ task.at = "new"
          /\ nwws' = [nwws EXCEPT !.tasks[k].at =
                                    IF nwws.should_reconnect THEN "sleep" ELSE "done"]
       \/ /\ ~task.cancelled /\ task.at = "sleep"
          /\ task.attempts < limit
          /\ \/ nwws' = [nwws EXCEPT !.tasks[k] = [tried EXCEPT !.at = "wait"],
                                     !.link = "connecting",
                                     !.late_attempt = @ \/ nwws.stopped]
             \/ nwws' = [nwws EXCEPT !.tasks[k] = again(tried),
                                     !.late_attempt = @ \/ nwws.stopped]
       \/ /\ ~task.cancelled /\ task.at = "wait"
          /\ nwws' = [nwws EXCEPT !.tasks[k] =
                                    IF nwws.connected THEN [task EXCEPT !.at = "done"]
                                    ELSE again(task)]
    /\ UNCHANGED <<mgrVars, clockVars, pending, brokerVars, geomVars, procs, inbox,
                   histVars, disk, api, calls, svc>>

\* as stop, leaving _should_reconnect as it is
stop_leaving_should_reconnect(n) ==
    [n EXCEPT !.tasks = cancel_reconnect_task(n),
              !.link = IF @ = "idle" THEN "idle" ELSE "closing",
              !.stopped = TRUE]

\* NWWSClient.stop: no more reconnection, an active reconnect task is cancelled, the
\* room is left and disconnect() closes the stream
stop(n) ==
    [n EXCEPT !.should_reconnect = FALSE,
              !.tasks = cancel_reconnect_task(n),
              !.link = IF @ = "idle" THEN "idle" ELSE "closing",
              !.stopped = TRUE]

\* stop_nwws_handler: NWWSAlertHandler.stop calls stop() on its client, once
StopClient ==
    /\ ~nwws.stopped
    /\ nwws.link # "idle"
    /\ nwws' = stop(nwws)
    /\ UNCHANGED <<mgrVars, clockVars, pending, brokerVars, geomVars, procs, inbox,
                   histVars, disk, api, calls, svc>>

InitReconnect ==
    /\ InitManager /\ InitClock /\ InitBroker /\ InitGeometry /\ InitHistory /\ InitIO
    /\ inbox = NoInbox

NextReconnect ==
    \/ StartClient
    \/ Disconnected
    \/ SessionStart
    \/ SessionRosterEnds
    \/ SessionSetupEnds
    \/ \E k \in 1..Len(nwws.tasks) : ReconnectStep(k, MaxTaskAttempts)
    \/ StopClient

\* the NWWS client against a stream that opens, fails and drops at any time
SpecReconnect == InitReconnect /\ [][NextReconnect]_vars

\* the reconnect tasks that can still make an attempt: not finished and not cancelled
Outstanding == {k \in 1..Len(nwws.tasks) : ~done(nwws.tasks[k]) /\ ~nwws.tasks[k].cancelled}

\* C28: at every moment at most one reconnect task is outstanding, however many
\* disconnect events and failed attempts there have been.
C28_AtMostOneReconnectTask == Cardinality(Outstanding) <= 1

\* the third reconnect task is outstanding after two failed attempts of its own; the
\* two tasks before it have ended
C28_Witness_ThirdTaskAfterFailures ==
    /\ Len(nwws.tasks) = 3
    /\ done(nwws.tasks[1]) /\ done(nwws.tasks[2])
    /\ Outstanding = {3}
    /\ nwws.tasks[3].wait_time = 20

(***************************************************************************)
(* NWSAPIClient._request (services/nws_api_client.py)                      *)
(***************************************************************************)
\* _min_request_interval, in seconds; one tick of the clock is one second
min_request_interval == 1

\* stop_after_attempt(3)
max_attempts == 3

\* wait_exponential(multiplier=1, min=2, max=30) before the attempt that follows
\* attempt number n: max(2, min(2^(n-1), 30))
retry_wait(n) == IF n <= 2 THEN 2 ELSE Min(2 ^ (n - 1), 30)

\* the GET of caller c leaves at time t
Send(a, c, t) ==
    [a EXCEPT !.sent = Append(@, [at |-> t, caller |-> c, attempt |-> a.callers[c].attempt,
                                  after |-> a.callers[c].after]),
              !.callers[c].pc = "get"]

\* _rate_limit and the GET after it, entered by caller c at time t: with a last
\* request less than the interval ago the caller sleeps for the rest of the interval;
\* otherwise _last_request_time is set and the GET leaves
rate_limit(a, c, t) ==
    IF a.last_request_time # None /\ t - a.last_request_time[1] < min_request_interval
    THEN [a EXCEPT !.callers[c].pc = "rate_sleep",
                   !.callers[c].wake_at = a.last_request_time[1] + min_request_interval]
    ELSE Send([a EXCEPT !.last_request_time = Some(t)], c, t)

\* caller c enters _request
Call(c) ==
    /\ api.callers[c].pc = "idle"
    /\ api' = rate_limit([api EXCEPT !.callers[c].attempt = 1], c, now)
    /\ UNCHANGED <<mgrVars, clockVars, pending, brokerVars, geomVars, procs, inbox,
                   histVars, disk, nwws, calls, svc>>

\* the sleep of _rate_limit ends: _last_request_time is set and the GET leaves
RateWake(c) ==
    /\ api.callers[c].pc = "rate_sleep"
    /\ api.callers[c].wake_at = now
    /\ api' = Send([api EXCEPT !.last_request_time = Some(now)], c, now)
    /\ UNCHANGED <<mgrVars, clockVars, pending, brokerVars, geomVars, procs, inbox,
                   histVars, disk, nwws, calls, svc>>

\* what a GET can end with: a status of the server, or a transport failure or timeout
Responses == {"200", "404", "429", "500", "timeout"}

\* the body of _request after the GET: TRUE when it raises NWSAPIError.  429 and 5xx
\* raise it directly; any other error status raises HTTPStatusError from
\* raise_for_status, and a transport failure RequestError, both re-raised as
\* NWSAPIError
raises_api_error(response) == response # "200"

\* the response of caller c's GET arrives.  The retry decorator retries on
\* httpx.HTTPError and NWSAPIError while fewer than max_attempts attempts were made.
Answer(c, response) ==
    /\ api.callers[c].pc = "get"
    /\ api' = IF raises_api_error(response) /\ api.callers[c].attempt < max_attempts
              THEN [api EXCEPT !.callers[c].pc = "retry_wait",
                               !.callers[c].after = response,
                               !.callers[c].wake_at = now + retry_wait(api.callers[c].attempt)]
              ELSE [api EXCEPT !.callers[c].pc = "done"]
    /\ UNCHANGED <<mgrVars, clockVars, pending, brokerVars, geomVars, procs, inbox,
                   histVars, disk, nwws, calls, svc>>

\* the wait of the retry decorator ends and _request is entered again
RetryWake(c) ==
    /\ api.callers[c].pc = "retry_wait"
    /\ api.callers[c].wake_at = now
    /\ api' = rate_limit([api EXCEPT !.callers[c].attempt = @ + 1], c, now)
    /\ UNCHANGED <<mgrVars, clockVars, pending, brokerVars, geomVars, procs, inbox,
                   histVars, disk, nwws, calls, svc>>

\* a second passes; a sleep that is over ends before more time passes
RestTick ==
    /\ now < MaxTime
    /\ \A c \in Callers : api.callers[c].pc \in {"rate_sleep", "retry_wait"} =>
                              api.callers[c].wake_at > now
    /\ now' = now + 1
    /\ UNCHANGED <<mgrVars, sinceSweep, pending, brokerVars, geomVars, procs, inbox,
                   histVars, ioVars>>

\* the callers whose GETs may fail: the first one
Failing == {c \in Callers : c = 1}

InitRequests ==
    /\ InitManager /\ InitClock /\ InitBroker /\ InitGeometry /\ InitHistory /\ InitIO
    /\ inbox = NoInbox

NextRequests ==
    \/ \E c \in Callers : Call(c)
    \/ \E c \in Callers : RateWake(c)
    \/ \E c \in Failing : \E r \in Responses : Answer(c, r)
    \/ \E c \in Callers \ Failing : Answer(c, "200")
    \/ \E c \in Callers : RetryWake(c)
    \/ RestTick

\* coroutines calling _request of the one REST client at times of their own
SpecRequests == InitRequests /\ [][NextRequests]_vars

\* C29: any two requests the client sends, those of concurrent callers included, are
\* at least min_request_interval apart.
C29_RequestsOneSecondApart ==
    \A i, j \in 1..Len(api.sent) :
        i < j => api.sent[j].at - api.sent[i].at >= min_request_interval

\* C30: a GET is attempted again only after a 5xx response, a 429 response or a
\* transport failure or timeout; any other response ends the request without a retry.
C30_RetryOnlyAfterServerErrorOr429 ==
    \A i \in 1..Len(api.sent) :
        api.sent[i].attempt > 1 => api.sent[i].after \in {"500", "429", "timeout"}

(***************************************************************************)
(* The manager's calls, step by step (services/alert_manager.py)           *)
(*                                                                         *)
(* add_alert, remove_alert and cleanup_expired are plain functions: they   *)
(* change _alerts and invoke the registered callbacks without awaiting,    *)
(* and the callbacks wired by main.py only create tasks.  Every caller     *)
(* runs on the one event loop.  A call is followed here through its        *)
(* statements: the change of the active set, each callback invocation, the *)
(* return.                                                                 *)
(***************************************************************************)
\* manager calls the model makes
MaxCalls == 4

\* warnings of two offices that end at tick 1, their continuations and cancellations
CallProducts ==
    { Product(v, PlainBody(v.office)) :
        v \in VtecOf({"NEW", "CON", "CAN"}, {KCLE, KPBZ}, {"W"}, {Some(1)}) }

\* as may_enter, if add_alert awaited between the change and the callbacks
may_enter_while_another_call_runs(in_progress) == TRUE

\* whether the event loop can start another manager call: a running call has no
\* await, so it returns before any other task is given the loop
may_enter(in_progress) == in_progress = <<>>

\* a call after its first statements: what it still has to pop (cleanup_expired),
\* the callback invocations it still has to make, the alert it still has to put
\* into _recent_products
ManagerCall(op, todo, events, track) ==
    [op |-> op, todo |-> todo, events |-> events, track |-> track]

\* add_alert up to the change of _alerts (lines 133-165); a cancellation goes through
\* remove_alert's pop (line 184)
EnterAddAlert(product) ==
    LET alert == Parsed(product)
        r     == add_alert(alerts, recent, alert, now) IN
    /\ fed < MaxCalls
    /\ may_enter(calls.running)
    /\ alerts' = r.alerts
    /\ calls' = [calls EXCEPT !.running =
                    Append(@, ManagerCall(CauseOf(alert), <<>>, r.events,
                                          IF r.events # <<>> /\ r.events[1].kind = "added"
                                          THEN Some(alert) ELSE None))]
    /\ fed' = fed + 1
    /\ UNCHANGED <<recent, running, clockVars, pending, brokerVars, geomVars, procs,
                   inbox, lastOp, overdue, disk, nwws, api, svc>>

\* _cleanup_loop wakes and cleanup_expired collects expired_ids (lines 305-310)
EnterCleanup ==
    /\ running
    /\ sinceSweep = cleanup_interval
    /\ may_enter(calls.running)
    /\ calls' = [calls EXCEPT !.running =
                    Append(@, ManagerCall("sweep",
                                          [n \in 1..Len(ExpiredAt(alerts, now)) |->
                                              ExpiredAt(alerts, now)[n].product_id],
                                          <<>>, None))]
    /\ sinceSweep' = 0
    /\ UNCHANGED <<mgrVars, now, pending, brokerVars, geomVars, procs, inbox, histVars,
                   disk, nwws, api, svc>>

\* the next statement of call k: a callback invocation (_notify_*: the callback
\* creates its broadcast task), else the next pop of cleanup_expired (lines 312-317),
\* else _add_to_recent and the return
CallStep(k) ==
    LET c == calls.running[k] IN
    /\ k \in 1..Len(calls.running)
    /\ IF c.events # <<>>
       THEN /\ calls' = [running |-> [calls.running EXCEPT ![k].events = Tail(@)],
                         log |-> Append(calls.log,
                                        <<Head(c.events).kind,
                                          Head(c.events).alert.product_id>>)]
            /\ pending' = pending \o CreateTasks(<<Head(c.events)>>, c.op)
            /\ UNCHANGED <<alerts, recent>>
       ELSE IF c.todo # <<>>
       THEN LET i == IndexOf(alerts, Head(c.todo)) IN
            /\ alerts' = IF i # 0 THEN RemoveAt(alerts, i) ELSE alerts
            /\ calls' = [calls EXCEPT
                            !.running[k].todo = Tail(@),
                            !.running[k].events =
                                IF i # 0 THEN <<Event("removed", mark_expired(alerts[i], now))>>
                                ELSE <<>>]
            /\ UNCHANGED <<recent, pending>>
       ELSE /\ recent' = IF c.track # None THEN add_to_recent(recent, c.track[1]) ELSE recent
            /\ calls' = [calls EXCEPT !.running = RemoveAt(@, k)]
            /\ UNCHANGED <<alerts, pending>>
    /\ UNCHANGED <<running, clockVars, brokerVars, geomVars, procs, inbox, histVars,
                   disk, nwws, api, svc>>

InitCallsSpec ==
    /\ InitManager /\ InitClock /\ InitBroker /\ InitGeometry /\ InitHistory /\ InitIO
    /\ inbox = NoInbox

NextCalls ==
    \/ \E p \in CallProducts : EnterAddAlert(p)
    \/ EnterCleanup
    \/ \E k \in 1..MaxCalls : CallStep(k)
    \/ Tick

\* products and the cleanup loop calling into the manager on one event loop
SpecCalls == InitCallsSpec /\ [][NextCalls]_vars

\* the callbacks invoked for one id, in order
CallbacksOf(id) ==
    LET mine == SelectSeq(calls.log, LAMBDA e : e[2] = id) IN
    [n \in 1..Len(mine) |-> mine[n][1]]

\* added, updated*, removed, and over again when the id comes back
InLifecycleOrder(kinds) ==
    \A n \in 1..Len(kinds) :
        IF kinds[n] = "added"
        THEN n = 1 \/ kinds[n - 1] = "removed"
        ELSE n > 1 /\ kinds[n - 1] \in {"added", "updated"}

\* the ids the callbacks have been told are active
ToldActive ==
    {id \in {e[2] : e \in Range(calls.log)} :
        CallbacksOf(id)[Len(CallbacksOf(id))] # "removed"}

Ended(b) == b.at \in {"done", "crashed"}

\* the sessions registered from the start of broadcast b until now whose socket
\* accepts writes
StayedThrough(b) == {c \in b.audience \cap Live(entries) : alive[c]}

\* C32: a broadcast is delivered to every session that stays registered for the whole
\* duration of the broadcast, even when another session connects or disconnects
\* while that broadcast is in progress.
C32_BroadcastReachesEverySessionThatStays ==
    \A k \in 1..Len(bcasts) :
        Ended(bcasts[k]) => StayedThrough(bcasts[k]) \subseteq bcasts[k].wrote

(***************************************************************************)
(* Claims about stop, session start and the backoff of the NWWS client     *)
(***************************************************************************)
\* C33: after stop() has been called on the NWWS client no reconnect task remains
\* outstanding and no reconnect attempt is made, also not in response to the
\* "disconnected" event that the stop itself causes.
C33_NoReconnectAfterStop ==
    nwws.stopped => Outstanding = {} /\ ~nwws.late_attempt

\* stop() has cancelled the active reconnect task, which had made an attempt, the
\* stream has closed after it and the task has ended
C33_Witness_StoppedWhileReconnecting ==
    /\ nwws.stopped
    /\ nwws.dropped_after_stop
    /\ nwws.reconnect_task # 0
    /\ nwws.tasks[nwws.reconnect_task].cancelled
    /\ nwws.tasks[nwws.reconnect_task].attempts > 0
    /\ done(nwws.tasks[nwws.reconnect_task])

\* C34: whenever a new NWWS session starts, any outstanding reconnect task is
\* cancelled, and a cancelled task makes no further connection attempt.
C34_SessionStartCancelsReconnectTask ==
    [][ /\ (nwws.link = "connecting" /\ nwws'.link = "up") => Outstanding' = {}
        /\ \A k \in 1..Len(nwws.tasks) :
              nwws.tasks[k].cancelled =>
                  nwws'.tasks[k].attempts = nwws.tasks[k].attempts ]_vars

\* a session has started on the attempt of a reconnect task: the task, waiting its
\* ten seconds, is cancelled and _reconnect_task is None
C34_Witness_CancelledByNewSession ==
    /\ ~nwws.stopped
    /\ nwws.link = "up"
    /\ nwws.reconnect_task = 0
    /\ \E k \in 1..Len(nwws.tasks) :
          nwws.tasks[k].cancelled /\ nwws.tasks[k].at = "wait" /\ nwws.tasks[k].attempts = 2

\* whether s is an initial part of t
IsPrefix(s, t) == Len(s) <= Len(t) /\ \A n \in 1..Len(s) : s[n] = t[n]

\* C38: on session start the client first sends presence, then fetches the roster,
\* and only then joins the chatroom under the configured nickname.
C38_PresenceThenRosterThenJoin ==
    IsPrefix(nwws.stanzas, <<"presence", "get_roster", "join_muc">>)

(***************************************************************************)
(* One reconnect task backing off                                          *)
(***************************************************************************)
\* how many connection attempts the model lets the one reconnect task make
MaxAttempts == 8

\* a "disconnected" event that leaves the client with no more than one task
OneTaskDisconnected ==
    /\ Len(on_disconnected_event(nwws).tasks) <= 1
    /\ Disconnected

InitBackoff ==
    /\ InitManager /\ InitClock /\ InitBroker /\ InitGeometry /\ InitHistory /\ InitIO
    /\ inbox = NoInbox

NextBackoff ==
    \/ StartClient
    \/ OneTaskDisconnected
    \/ SessionStart
    \/ SessionRosterEnds
    \/ SessionSetupEnds
    \/ \E k \in 1..Len(nwws.tasks) : ReconnectStep(k, MaxAttempts)

\* the client with the one reconnect task of its first disconnection
SpecBackoff == InitBackoff /\ [][NextBackoff]_vars

\* min(5 * 2^(k-1), 300)
DelayBeforeAttempt(k) == Min(5 * 2 ^ (k - 1), 300)

\* C35: within one reconnect task the delay before the k-th consecutive attempt is
\* min(5 * 2^(k-1), 300) seconds: the task that sleeps before its next attempt
\* sleeps that long, and the task that has just made its k-th attempt had slept that
\* long.
C35_DelayDoublesUpToCap ==
    \A n \in 1..Len(nwws.tasks) :
        LET task == nwws.tasks[n] IN
        /\ task.at = "sleep" => task.wait_time = DelayBeforeAttempt(task.attempts + 1)
        /\ task.at = "wait" => task.wait_time = DelayBeforeAttempt(task.attempts)

\* the task has made its eighth attempt after a sleep of 300 seconds, the cap
C35_Witness_EighthAttemptAtCap ==
    /\ Len(nwws.tasks) = 1
    /\ nwws.tasks[1].at = "wait"
    /\ nwws.tasks[1].attempts = 8
    /\ nwws.tasks[1].wait_time = 300

(***************************************************************************)
(* Service stop (main.py shutdown_services)                                *)
(*                                                                         *)
(* shutdown_services runs as one coroutine on the event loop, next to the  *)
(* process_alert tasks that on_nwws_alert has created.  It keeps the loop  *)
(* from one await to the next; at an await the other ready tasks run.      *)
(***************************************************************************)
\* as shutdown_order, with the geometry resolver stopped before the alert manager
shutdown_order_geometry_first == <<"nwws", "zone_geometry", "alert_manager", "nws_client">>

\* the stop calls of the core components, in the order of the statements of
\* shutdown_services (lines 245-248): stop_nwws_handler, stop_alert_manager,
\* stop_zone_geometry_service, close_nws_client
shutdown_order == <<"nwws", "alert_manager", "zone_geometry", "nws_client">>

ShutdownTask == Task("shutdown", 0, 0)

\* shutdown_services is at the call (or, in `phase` "await", inside the call) that
\* stops this component, and has the loop
Stopping(component, phase) ==
    /\ svc.at = "stopping"
    /\ svc.next <= Len(shutdown_order)
    /\ shutdown_order[svc.next] = component
    /\ svc.phase = phase
    /\ ready # <<>> /\ Head(ready) = ShutdownTask

\* the stop of the component has returned
Returned(component) ==
    [svc EXCEPT !.stopped = Append(@, component), !.next = @ + 1, !.phase = "call"]

\* the NWWS session of a service that is up: the room is joined
JoinedClient ==
    [connected |-> TRUE, should_reconnect |-> TRUE, reconnect_task |-> 0,
     tasks |-> <<>>, link |-> "up", session |-> "none",
     stanzas |-> <<"get_roster", "presence", "join_muc">>,
     stopped |-> FALSE, dropped_after_stop |-> FALSE, late_attempt |-> FALSE]

\* a product comes from the stream while the NWWS client has not been stopped
StreamReceive ==
    /\ ~nwws.stopped
    /\ PushReceive

\* the lifespan context exits: shutdown_services starts and awaits the stops of the
\* other services (lines 237-244), which give the loop to the tasks that are ready
ShutdownBegins ==
    /\ svc.at = "up"
    /\ svc' = [svc EXCEPT !.at = "stopping"]
    /\ ready' = Append(ready, ShutdownTask)
    /\ UNCHANGED <<mgrVars, clockVars, pending, brokerVars, cache, pendingFetches, fetches,
                   procs, inbox, histVars, disk, nwws, api, calls>>

\* stop_nwws_handler: NWWSAlertHandler.stop calls NWWSClient.stop, which does not await
StopNwwsHandler ==
    /\ Stopping("nwws", "call")
    /\ nwws' = stop(nwws)
    /\ svc' = Returned("nwws")
    /\ UNCHANGED <<mgrVars, clockVars, pending, brokerVars, geomVars, procs, inbox,
                   histVars, disk, api, calls>>

\* stop_alert_manager up to its await: stop_cleanup_task clears _running, cancels the
\* cleanup task and awaits it; the tasks that are ready run before it comes back
StopAlertManagerBegins ==
    /\ Stopping("alert_manager", "call")
    /\ running' = FALSE
    /\ svc' = [svc EXCEPT !.phase = "await"]
    /\ ready' = Tail(ready) \o <<ShutdownTask>>
    /\ UNCHANGED <<alerts, recent, clockVars, pending, brokerVars, cache, pendingFetches,
                   fetches, procs, inbox, histVars, disk, nwws, api, calls>>

\* stop_alert_manager after the await: save_to_file writes the active set
StopAlertManagerSaves ==
    /\ Stopping("alert_manager", "await")
    /\ \E outcome \in SaveOutcomes : disk' = save_to_file(alerts, disk, outcome)
    /\ svc' = [Returned("alert_manager") EXCEPT !.saved = Some(alerts)]
    /\ UNCHANGED <<mgrVars, clockVars, pending, brokerVars, geomVars, procs, inbox,
                   histVars, nwws, api, calls>>

\* stop_zone_geometry_service: save_to_file writes the cache; nothing is awaited
StopZoneGeometryService ==
    /\ Stopping("zone_geometry", "call")
    /\ svc' = [Returned("zone_geometry") EXCEPT !.cache_file = Some(cache)]
    /\ UNCHANGED <<mgrVars, clockVars, pending, brokerVars, geomVars, procs, inbox,
                   histVars, disk, nwws, api, calls>>

\* close_nws_client up to its await: NWSAPIClient.close awaits aclose() of the pool
CloseNwsClientBegins ==
    /\ Stopping("nws_client", "call")
    /\ svc' = [svc EXCEPT !.phase = "await", !.pool = "closing"]
    /\ ready' = Tail(ready)
    /\ UNCHANGED <<mgrVars, clockVars, pending, brokerVars, cache, pendingFetches, fetches,
                   procs, inbox, histVars, disk, nwws, api, calls>>

\* the connections of the pool are closed: aclose() is over
PoolClosed ==
    /\ svc.pool = "closing"
    /\ svc' = [svc EXCEPT !.pool = "closed"]
    /\ ready' = Append(ready, ShutdownTask)
    /\ UNCHANGED <<mgrVars, clockVars, pending, brokerVars, cache, pendingFetches, fetches,
                   procs, inbox, histVars, disk, nwws, api, calls>>

\* close_nws_client after the await
CloseNwsClientEnds ==
    /\ Stopping("nws_client", "await")
    /\ svc' = Returned("nws_client")
    /\ UNCHANGED <<mgrVars, clockVars, pending, brokerVars, geomVars, procs, inbox,
                   histVars, disk, nwws, api, calls>>

\* shutdown_services returns; the loop goes on until the server has left
ShutdownReturns ==
    /\ svc.at = "stopping"
    /\ svc.next > Len(shutdown_order)
    /\ ready # <<>> /\ Head(ready) = ShutdownTask
    /\ svc' = [svc EXCEPT !.at = "done"]
    /\ ready' = Tail(ready)
    /\ UNCHANGED <<mgrVars, clockVars, pending, brokerVars, cache, pendingFetches, fetches,
                   procs, inbox, histVars, disk, nwws, api, calls>>

\* watches of KCLE over one county, with and without a polygon of their own
ShutdownProducts ==
    {p \in IngestProducts : p.vtec.action = "NEW" /\ p.body.affected_areas = <<OHC049>>}

\* the service is up, the NWWS room joined, and two products are still to come
InitShutdown ==
    /\ InitManager /\ InitClock /\ InitBroker /\ InitGeometry /\ InitHistory
    /\ InitDisk /\ InitRest /\ InitCalls /\ InitServices
    /\ nwws = JoinedClient
    /\ inbox \in {[todo |-> <<p, q>>, done |-> <<>>] : p, q \in ShutdownProducts}

NextShutdown ==
    \/ StreamReceive
    \/ ProcStart
    \/ ResolveStart
    \/ FetchStart
    \/ \E f \in 1..Len(fetches) : \E a \in Answers(fetches[f].zone) : Respond(f, a)
    \/ FetchResume
    \/ ResolveResume
    \/ ProcResume
    \/ ShutdownBegins
    \/ StopNwwsHandler
    \/ StopAlertManagerBegins
    \/ StopAlertManagerSaves
    \/ StopZoneGeometryService
    \/ CloseNwsClientBegins
    \/ PoolClosed
    \/ CloseNwsClientEnds
    \/ ShutdownReturns

\* the service stopping while products of the push stream are being processed
SpecShutdown == InitShutdown /\ [][NextShutdown]_vars

\* C36: on service stop the core components are stopped strictly in the order NWWS
\* client, alert manager (which saves the active set), geometry resolver (which saves
\* its cache), REST client (which closes its pool): the stops that have returned are
\* an initial part of that order, and each has done its work.
C36_CoreStopsInOrder ==
    /\ IsPrefix(svc.stopped, <<"nwws", "alert_manager", "zone_geometry", "nws_client">>)
    /\ Len(svc.stopped) >= 1 => nwws.stopped /\ ~nwws.should_reconnect
    /\ Len(svc.stopped) >= 2 => ~running /\ svc.saved # None
    /\ Len(svc.stopped) >= 3 => svc.cache_file # None
    /\ Len(svc.stopped) >= 4 => svc.pool = "closed"
    /\ svc.saved = None => svc.cache_file = None /\ svc.pool = "open"
    /\ svc.cache_file = None => svc.pool = "open"

\* shutdown_services has returned: the four stops have been made, an active set with
\* an alert in it has been written and the pool is closed
C36_Witness_AllFourStopped ==
    /\ svc.at = "done"
    /\ Len(svc.stopped) = 4
    /\ svc.saved # None /\ svc.saved # Some(<<>>)
    /\ disk.state = "valid" /\ disk.alerts # <<>>

\* C37: during service stop no alert is added to or merged into the active set after
\* the active set has been saved: the process_alert tasks in flight do not change it
\* once the save has happened.
C37_NoMutationAfterSave ==
    svc.saved # None => alerts = svc.saved[1]

====
